---- MODULE Spec2Model ----
(***************************************************************************)
(* A model of the deployment coordinator of api-systemd                    *)
(* (internal/service/service.go), of its lifecycle hook engine             *)
(* (internal/pkg/hooks, HookExecutor) and of the collaborators it drives:  *)
(* the workspace manager, the artifact manager, the unit-file directory    *)
(* and the init system.  Several caller goroutines invoke the operations   *)
(* of one shared service value; every collaborator call is one step whose  *)
(* outcome (success or error) is chosen nondeterministically.              *)
(***************************************************************************)
EXTENDS Integers, Sequences, FiniteSets, TLC

\* ------------------------------------------------------------------ bounds

\* Caller goroutines that invoke the coordinator concurrently.
NumProcs == 2
\* Longest hook list of a deploy request.
MaxHooks == 2
\* Operations invoked in one concurrent run.
MaxCalls == 2

Procs == 1..NumProcs
NoProc == 0

\* ------------------------------------------------------------ service names

\* Service names are sequences of characters; the characters below stand for
\* the classes the validator tells apart, and "dbus" for a word of such
\* characters with which the names of units of the system begin.
NameChars == {"a", "b", "Z", "0", "_", "-", "dbus"}
SpaceChars == {" ", "\n"}

\* strings.TrimSpace(serviceName) == ""
IsBlank(name) == \A i \in 1..Len(name) : name[i] \in SpaceChars

\* regexp.MatchString(`^[a-zA-Z0-9_-]+$`, serviceName); Go's $ matches only
\* at the end of the text, so a trailing newline does not match.
MatchesNamePattern(name) ==
    /\ Len(name) >= 1
    /\ \A i \in 1..Len(name) : name[i] \in NameChars

\* A faulty variant: the pattern with * in place of +, and no blank check.
ValidateServiceNameLax(name) ==
    IF \A i \in 1..Len(name) : name[i] \in NameChars THEN "nil" ELSE "ErrInvalidServiceName"

\* A faulty variant: the pattern's $ also matches before a final newline.
ValidateServiceNameDollar(name) ==
    LET body == IF name # <<>> /\ name[Len(name)] = "\n"
                THEN SubSeq(name, 1, Len(name) - 1) ELSE name
    IN IF IsBlank(name) THEN "ErrEmptyServiceName"
       ELSE IF Len(body) >= 1 /\ \A i \in 1..Len(body) : body[i] \in NameChars THEN "nil"
       ELSE "ErrInvalidServiceName"

ValidateServiceName(name) ==
    IF IsBlank(name) THEN "ErrEmptyServiceName"
    ELSE IF ~MatchesNamePattern(name) THEN "ErrInvalidServiceName"
    ELSE "nil"

\* The names callers pass: two that the validator accepts and three it rejects.
SvcA == <<"a">>
SvcB == <<"b", "-", "0">>
ServiceNames == {SvcA, SvcB, <<>>, <<"a", "/">>, <<" ">>}
ValidNames == {n \in ServiceNames : ValidateServiceName(n) = "nil"}

\* ------------------------------------------------------------------- hooks

HookPreStart == "pre_start"
HookPostStart == "post_start"

\* A Hook: Type, which of Command/Script/CallbackURL is populated (what),
\* Retry, Enabled, Async.
Hook(type, what, retry, enabled, async) ==
    [type |-> type, what |-> what, retry |-> retry, enabled |-> enabled, async |-> async]

\* The hooks deploy requests are built from.
PreOnce == Hook(HookPreStart, "command", 0, TRUE, FALSE)
PreSync == Hook(HookPreStart, "command", 2, TRUE, FALSE)
PreAsync == Hook(HookPreStart, "command", 2, TRUE, TRUE)
PostSync == Hook(HookPostStart, "callback", 0, TRUE, FALSE)
PreOff == Hook(HookPreStart, "command", 0, FALSE, FALSE)
DeployHooks == {PreSync, PreAsync, PostSync}

SeqsUpTo(S, n) == UNION {[1..k -> S] : k \in 0..n}

HookLists == SeqsUpTo(DeployHooks, MaxHooks)

\* ---------------------------------------------------------------- requests

\* Package URLs as sequences of pieces: the scheme first, then path pieces.
GoodURL == <<"https://", "x/app", ".tar.gz">>
BadURL == <<"ftp://", "x/app", ".zip">>
PackageURLs == {GoodURL, BadURL}

SupportedFormats == {".zip", ".tar.gz", ".tar"}

\* artifact.Manager.ValidateURL: non-empty, an http(s) prefix, and one of the
\* supported formats somewhere in the URL (strings.Contains).
ValidateURL(url) ==
    /\ url # <<>>
    /\ Head(url) \in {"http://", "https://"}
    /\ \E i \in 1..Len(url) : url[i] \in SupportedFormats

\* params.Notifications: OTEL and Callback both absent, or both present and
\* enabled.
NotificationConfigs == {[otel |-> b, callback |-> b] : b \in BOOLEAN}

\* ------------------------------------------------- texts and configurations

\* Paths, names and commands are texts: sequences of pieces.  filepath.Join
\* of two texts leaves out an empty element and puts the separator between
\* the others.
Join(a, b) == IF a = <<>> THEN b ELSE IF b = <<>> THEN a ELSE a \o <<"/">> \o b

\* The text of a folder name ("" when no folder was extracted).
Text(s) == IF s = "" THEN <<>> ELSE <<s>>

\* cfg.Workspace.WorkDir, and workspace.Manager.GetServiceDir / GetLogDir.
WorkDir == <<"/opt/api-systemd">>
GetServiceDir(name) == Join(Join(WorkDir, <<"services">>), name)
GetLogDir(name) == Join(Join(WorkDir, <<"logs">>), name)

\* params.Path and params.StartCommand of the requests.
DeployPath == <<"/srv/apps">>
StartCommand == <<"bin/run">>

\* ServiceConfig.Environment: a map from keys to texts (a nil map reads as
\* the empty one).
NoEnvironment == [k \in {} |-> <<>>]
SetEnv(env, key, value) ==
    [k \in DOMAIN env \cup {key} |-> IF k = key THEN value ELSE env[k]]

\* The keys of the environments, in the sorted order in which text/template
\* ranges over a map.
EnvKeys == <<"LOG_DIR", "MODE">>

\* hooks.ServiceConfig.
ServiceConfig(name, description, workdir, exec, env, restart, hooks) ==
    [ServiceName |-> name, Description |-> description, WorkingDirectory |-> workdir,
     ExecStart |-> exec, Environment |-> env, RestartPolicy |-> restart, Hooks |-> hooks]

\* A *ServiceConfig is nil or points to a configuration.
NilConfig == <<>>
Ref(config) == <<config>>

\* A hook's Command ("" unless the command is what the hook runs).
CommandOf(h) == IF h.what = "command" THEN <<"run-", h.type>> ELSE <<>>

\* The Commands of the hooks of one type, in list order; a hook without
\* Command is left out (NewSystemdConfig's loop over config.Hooks).
CommandsOf(hooks, type) ==
    LET sel == SelectSeq(hooks, LAMBDA h : CommandOf(h) # <<>> /\ h.type = type)
    IN [i \in 1..Len(sel) |-> CommandOf(sel[i])]

\* NewSystemdConfig: the configuration passed in, or the basic one when
\* none is, with the hook commands taken out per phase.
NewSystemdConfig(serviceName, workingDirectory, startCmd, serviceConfig) ==
    LET config == IF serviceConfig # NilConfig
                  THEN serviceConfig[1]
                  ELSE ServiceConfig(serviceName, serviceName \o <<" Service">>,
                                     workingDirectory, Join(workingDirectory, startCmd),
                                     NoEnvironment, "always", <<>>)
    IN [ServiceConfig |-> config,
        PreStartHooks |-> CommandsOf(config.Hooks, HookPreStart),
        PostStartHooks |-> CommandsOf(config.Hooks, HookPostStart)]

\* One line of the unit file, and the same key before each of a list of values.
Line(key, value) == <<key, value>>
Lines(key, values) == [i \in 1..Len(values) |-> Line(key, values[i])]

\* The text tmpl.Execute writes for systemdTpl: the lines that depend on
\* the configuration, in the template's order.
UnitText(sc) ==
    LET c == sc.ServiceConfig
        keys == SelectSeq(EnvKeys, LAMBDA k : k \in DOMAIN c.Environment)
    IN <<Line("Description", c.Description),
         Line("WorkingDirectory", c.WorkingDirectory)>>
       \o [i \in 1..Len(keys) |-> Line("Environment", <<keys[i], "=">> \o c.Environment[keys[i]])]
       \o Lines("ExecStartPre", sc.PreStartHooks)
       \o <<Line("ExecStart", c.ExecStart)>>
       \o Lines("ExecStartPost", sc.PostStartHooks)
       \o <<Line("Restart", <<c.RestartPolicy>>)>>

\* A DeployRequest with its Config; submitted and runs are kept for
\* comparison: the Config as it was when the request was first submitted,
\* and the number of times the request was submitted.
DeployRequestWith(service, url, hooks, notifications, config) ==
    [service |-> service, path |-> DeployPath, url |-> url,
     startCommand |-> StartCommand, config |-> config, hooks |-> hooks,
     notifications |-> notifications, submitted |-> config, runs |-> 1]

\* A DeployRequest without Config.
DeployRequest(service, url, hooks, notifications) ==
    DeployRequestWith(service, url, hooks, notifications, NilConfig)

\* The requests of the sequential runs: one service, every hook list, URL
\* and notification config, and a request with a name that is not valid.
DeployRequests ==
    {DeployRequest(SvcA, u, hs, n) :
        u \in PackageURLs, hs \in HookLists, n \in NotificationConfigs}
    \cup {DeployRequest(<<"a", "/">>, GoodURL, <<PreSync>>, [otel |-> TRUE, callback |-> TRUE])}

\* The requests of the concurrent runs: every name without hooks, and the
\* first service with one and with MaxHooks synchronous pre_start hooks.
ConcurrentRequests ==
    {DeployRequest(s, GoodURL, <<>>, [otel |-> FALSE, callback |-> FALSE]) :
        s \in ServiceNames}
    \cup {DeployRequest(SvcA, GoodURL, [i \in 1..k |-> PreOnce],
                        [otel |-> FALSE, callback |-> FALSE]) : k \in {1, MaxHooks}}

NoReq == [service |-> <<>>, path |-> <<>>, url |-> <<>>, startCommand |-> <<>>,
          config |-> NilConfig, hooks |-> <<>>,
          notifications |-> [otel |-> FALSE, callback |-> FALSE],
          submitted |-> NilConfig, runs |-> 0]

\* ------------------------------------------------------------------- state

VARIABLES
    mu,            \* service.mu: the pending-or-active writer and the readers
    pc,            \* where each caller goroutine is in its operation
    op,            \* the operation each caller is running
    req,           \* the request (or service name) of that operation
    loc,           \* Deploy's local variables (folder)
    result,        \* the value the operation returns
    trace,         \* the collaborator calls the running operation has made
    eh,            \* per caller: the ExecuteHooks call it is inside
    tasks,         \* detached goroutines: async hooks and callbacks
    serviceDirs,   \* {workDir}/services/{name} directories that exist
    logDirs,       \* {workDir}/logs/{name} directories that exist
    unitFiles,     \* /etc/systemd/system/{name}.service files that exist
    enabled,       \* units the init system has enabled
    active,        \* units the init system has started
    otelReporter,  \* service.otelReporter
    hookLog,       \* the "Hook executed" log lines of the running operations
    calls,         \* operations invoked so far
    caller         \* the request a caller kept after Deploy, and Deploy's error

vars == <<mu, pc, op, req, loc, result, trace, eh, tasks, serviceDirs, logDirs,
          unitFiles, enabled, active, otelReporter, hookLog, calls, caller>>

fsVars == <<serviceDirs, logDirs, unitFiles>>
initVars == <<enabled, active>>

NoReporter == <<"nil">>

\* An ExecuteHooks call that has not been made.
NoEngine ==
    [dpc |-> "idle", wpc |-> "none", hooks |-> <<>>, phase |-> "", i |-> 0,
     count |-> 0, closed |-> FALSE, events |-> <<>>, whook |-> 0,
     wattempt |-> 0, wstatus |-> ""]

NoLoc == [folder |-> "", config |-> NilConfig]

\* No request is kept.
NoCaller == [params |-> NoReq, err |-> "none"]

Init ==
    /\ mu = [w |-> NoProc, held |-> FALSE, readers |-> {}]
    /\ pc = [p \in Procs |-> "idle"]
    /\ op = [p \in Procs |-> "none"]
    /\ req = [p \in Procs |-> NoReq]
    /\ loc = [p \in Procs |-> NoLoc]
    /\ result = [p \in Procs |-> "none"]
    /\ trace = [p \in Procs |-> <<>>]
    /\ eh = [p \in Procs |-> NoEngine]
    /\ tasks = {}
    /\ serviceDirs = {}
    /\ logDirs = {}
    /\ unitFiles = {}
    /\ enabled = {}
    /\ active = {}
    /\ otelReporter = NoReporter
    /\ hookLog = {}
    /\ calls = 0
    /\ caller = NoCaller

\* One collaborator call of the running operation: its name, whether it
\* returned without error, and whether it changed the filesystem or the
\* init system.
Step(name, ok, eff) == [step |-> name, ok |-> ok, eff |-> eff]

\* A caller that has its result returns before any other goroutine moves on:
\* the return touches nothing but the caller's own frame, so the runs left
\* out differ from the runs kept only in when that frame is cleared.
NoneReturning == \A p \in Procs : pc[p] # "ret"

\* Caller p is free to invoke an operation: it is in none, and the run has
\* invocations left.
Callable(p) ==
    /\ pc[p] = "idle"
    /\ calls < MaxCalls
    /\ NoneReturning

\* Caller p invokes an operation: one more of the MaxCalls invocations of a run.
Invoke(p) ==
    /\ Callable(p)
    /\ calls' = calls + 1

Log(p, name, ok, eff) == trace' = [trace EXCEPT ![p] = Append(@, Step(name, ok, eff))]

\* --------------------------------------------------------------- the lock

\* sync.RWMutex.Lock, first half: the writer announces itself (later RLock
\* calls block) once no other writer is pending or active.
LockAnnounce(p) ==
    /\ mu.w = NoProc
    /\ mu' = [mu EXCEPT !.w = p]

\* A faulty variant: the announced writer does not wait for the readers.
LockAdmitEarly(p) ==
    /\ mu.w = p
    /\ ~mu.held
    /\ mu' = [mu EXCEPT !.held = TRUE]

\* sync.RWMutex.Lock, second half: the announced writer is admitted once the
\* readers that were inside have left.
LockAdmit(p) ==
    /\ mu.w = p
    /\ ~mu.held
    /\ mu.readers = {}
    /\ mu' = [mu EXCEPT !.held = TRUE]

\* sync.RWMutex.Unlock (the deferred call of Deploy).
Unlock(p) == mu' = [mu EXCEPT !.w = NoProc, !.held = FALSE]

\* sync.RWMutex.RLock: blocks while a writer is pending or active.
RLock(p) ==
    /\ mu.w = NoProc
    /\ mu' = [mu EXCEPT !.readers = @ \cup {p}]

\* sync.RWMutex.RUnlock.
RUnlock(p) == mu' = [mu EXCEPT !.readers = @ \ {p}]

\* -------------------------------------------------------- the hook engine

\* ExecuteHook: maxRetries := hook.Retry; if maxRetries <= 0 { maxRetries = 1 }
MaxAttempts(h) == IF h.retry <= 0 THEN 1 ELSE h.retry

\* The outcomes one attempt of a hook can have: an executor (command, script
\* or callback) returns nil or an error; with none of the three populated no
\* executor runs and lastErr stays nil.
AttemptOutcomes(h) == IF h.what = "none" THEN {TRUE} ELSE BOOLEAN

\* The state of ExecuteHook's retry loop after one more attempt with outcome
\* ok, made attempts having been made before: done tells whether the loop has
\* ended and status is event.Status at that point (the executors set
\* "success"; the code after the loop sets "failure" when lastErr != nil).
AfterAttempt(h, made, ok) ==
    IF ok
    THEN [done |-> TRUE, made |-> made + 1,
          status |-> IF h.what = "none" THEN "" ELSE "success"]
    ELSE IF made + 1 >= MaxAttempts(h)
    THEN [done |-> TRUE, made |-> made + 1, status |-> "failure"]
    ELSE [done |-> FALSE, made |-> made + 1, status |-> ""]

\* The HookEvent ExecuteHook returns (hook is the index of its hook in the
\* list given to ExecuteHooks).
HookEvent(h, idx, status) == [hookType |-> h.type, hook |-> idx, status |-> status]

\* ExecuteHooks is entered: the two unbuffered channels are made and the
\* worker goroutine is started.
Engine(hooks, phase) ==
    [dpc |-> "loop", wpc |-> "recv", hooks |-> hooks, phase |-> phase,
     i |-> 1, count |-> 0, closed |-> FALSE, events |-> <<>>,
     whook |-> 0, wattempt |-> 0, wstatus |-> ""]

EngineStart(p, hooks, phase) == eh' = [eh EXCEPT ![p] = Engine(hooks, phase)]

\* logger.Info(ctx, "Hook executed" / "Hook executed asynchronously", ...):
\* the hook's index and its final status.  The lines of an operation are
\* dropped when it returns.
LogLine(p, phase, idx, async, status) ==
    [owner |-> p, phase |-> phase, idx |-> idx, async |-> async, status |-> status]

Logged(p, line) == IF pc[p] = "idle" THEN hookLog ELSE hookLog \cup {line}

\* A faulty variant: the dispatching loop hands every hook to a goroutine of its own.
IsAsyncAlways(h) == TRUE

\* A faulty variant: the Async mark is ignored and every hook goes to the worker.
IsAsyncNever(h) == FALSE

IsAsync(h) == h.async

\* One iteration of the dispatching loop `for _, hook := range hooks`, or,
\* past the last hook, close(syncHooks) and the start of the collecting loop
\* (which returns at once when syncHookCount is 0).
Dispatch(p) ==
    LET e == eh[p] IN
    /\ e.dpc = "loop"
    /\ NoneReturning
    /\ IF e.i > Len(e.hooks)
       THEN /\ eh' = [eh EXCEPT ![p].closed = TRUE,
                                ![p].dpc = IF e.count = 0 THEN "returned" ELSE "collect"]
            /\ UNCHANGED tasks
       ELSE LET h == e.hooks[e.i] IN
            IF ~h.enabled \/ h.type # e.phase
            THEN /\ eh' = [eh EXCEPT ![p].i = e.i + 1]
                 /\ UNCHANGED tasks
            ELSE IF IsAsync(h)
            THEN /\ tasks' = tasks \cup {[kind |-> "hook", owner |-> p, phase |-> e.phase,
                                          idx |-> e.i, hook |-> h, made |-> 0]}
                 /\ eh' = [eh EXCEPT ![p].i = e.i + 1]
            ELSE /\ eh' = [eh EXCEPT ![p].count = e.count + 1, ![p].dpc = "send"]
                 /\ UNCHANGED tasks
    /\ UNCHANGED <<mu, pc, op, req, loc, result, trace, fsVars, initVars, otelReporter, hookLog, calls, caller>>

\* `syncHooks <- hook` meets `for hook := range syncHooks`: the channel is
\* unbuffered, so the send completes only when the worker is receiving.
HandOffHook(p) ==
    LET e == eh[p] IN
    /\ e.dpc = "send"
    /\ NoneReturning
    /\ e.wpc = "recv"
    /\ eh' = [eh EXCEPT ![p].dpc = "loop", ![p].i = e.i + 1,
                        ![p].wpc = "exec", ![p].whook = e.i, ![p].wattempt = 0]
    /\ UNCHANGED <<mu, pc, op, req, loc, result, trace, tasks, fsVars, initVars, otelReporter, hookLog, calls, caller>>

\* The worker makes one attempt of the hook it holds (ExecuteHook's loop).
WorkerAttempt(p) ==
    LET e == eh[p]
        h == e.hooks[e.whook]
    IN
    /\ e.wpc = "exec"
    /\ NoneReturning
    /\ \E ok \in AttemptOutcomes(h) :
          LET a == AfterAttempt(h, e.wattempt, ok) IN
          /\ eh' = [eh EXCEPT ![p].wattempt = a.made,
                              ![p].wstatus = a.status,
                              ![p].wpc = IF a.done THEN "send" ELSE "exec"]
          /\ hookLog' = IF a.done
                        THEN Logged(p, LogLine(p, e.phase, e.whook, FALSE, a.status))
                        ELSE hookLog
    /\ UNCHANGED <<mu, pc, op, req, loc, result, trace, tasks, fsVars, initVars, otelReporter, calls, caller>>

\* `syncEvents <- event` meets `event := <-syncEvents` of the collecting
\* loop, which returns the events once syncHookCount of them have arrived.
HandOffEvent(p) ==
    LET e == eh[p]
        ev == HookEvent(e.hooks[e.whook], e.whook, e.wstatus)
    IN
    /\ e.wpc = "send"
    /\ NoneReturning
    /\ e.dpc = "collect"
    /\ eh' = [eh EXCEPT ![p].events = Append(e.events, ev),
                        ![p].wpc = "recv",
                        ![p].dpc = IF Len(e.events) + 1 = e.count THEN "returned" ELSE "collect"]
    /\ UNCHANGED <<mu, pc, op, req, loc, result, trace, tasks, fsVars, initVars, otelReporter, hookLog, calls, caller>>

\* The worker's `range syncHooks` ends once the channel is closed.
WorkerExit(p) ==
    /\ eh[p].wpc = "recv"
    /\ NoneReturning
    /\ eh[p].closed
    /\ eh' = [eh EXCEPT ![p].wpc = "exited"]
    /\ UNCHANGED <<mu, pc, op, req, loc, result, trace, tasks, fsVars, initVars, otelReporter, hookLog, calls, caller>>

\* A detached goroutine of an async hook makes one attempt; its event is
\* only logged.
AsyncAttempt(t) ==
    /\ t \in tasks
    /\ NoneReturning
    /\ t.kind = "hook"
    /\ \E ok \in AttemptOutcomes(t.hook) :
          LET a == AfterAttempt(t.hook, t.made, ok) IN
          /\ tasks' = IF a.done THEN tasks \ {t}
                      ELSE (tasks \ {t}) \cup {[t EXCEPT !.made = a.made]}
          /\ hookLog' = IF a.done
                        THEN Logged(t.owner, LogLine(t.owner, t.phase, t.idx, TRUE, a.status))
                        ELSE hookLog
    /\ UNCHANGED <<mu, pc, op, req, loc, result, trace, eh, fsVars, initVars, otelReporter, calls, caller>>

\* The goroutine of sendCallbackNotification ends; whatever the response
\* (2xx, another status, a transport error) it is only logged.
CallbackDone(t) ==
    /\ t \in tasks
    /\ NoneReturning
    /\ t.kind = "callback"
    /\ tasks' = tasks \ {t}
    /\ UNCHANGED <<mu, pc, op, req, loc, result, trace, eh, fsVars, initVars, otelReporter, hookLog, calls, caller>>

EngineStep(p) ==
    \/ Dispatch(p)
    \/ HandOffHook(p)
    \/ WorkerAttempt(p)
    \/ HandOffEvent(p)
    \/ WorkerExit(p)

\* ------------------------------------------------------------------ Deploy

\* Detached goroutines of caller p's last Deploy that are still running.
TasksOf(p) == {t \in tasks : t.owner = p}

\* An operation ends: its result is set and the caller is about to return.
Finish(p, res) ==
    /\ pc' = [pc EXCEPT ![p] = "ret"]
    /\ result' = [result EXCEPT ![p] = res]

\* Deploy returns an error after the lock was taken: the deferred Unlock runs.
DeployFail(p, err) ==
    /\ Finish(p, err)
    /\ Unlock(p)

\* Deploy is called: validator.ValidateServiceName(params.Service), and on
\* failure the return of "validation failed" before anything else.
DeployCall(p, r) ==
    /\ Invoke(p)
    /\ TasksOf(p) = {}
    /\ op' = [op EXCEPT ![p] = "Deploy"]
    /\ req' = [req EXCEPT ![p] = r]
    /\ trace' = [trace EXCEPT ![p] = <<>>]
    /\ IF ValidateServiceName(r.service) # "nil"
       THEN Finish(p, "validation failed")
       ELSE /\ pc' = [pc EXCEPT ![p] = "lock"]
            /\ result' = [result EXCEPT ![p] = "none"]
    /\ caller' = NoCaller
    /\ UNCHANGED <<mu, loc, eh, tasks, fsVars, initVars, otelReporter, hookLog>>

\* Deploy is called again with the request object the caller kept; whatever
\* an earlier Deploy assigned through its pointers is still in it.
Redeploy(p) ==
    /\ caller # NoCaller
    /\ DeployCall(p, [caller.params EXCEPT !.runs = @ + 1])

\* A faulty variant: Deploy goes on without taking s.mu.
DeployLockNone(p) ==
    /\ pc[p] = "lock"
    /\ NoneReturning
    /\ pc' = [pc EXCEPT ![p] = "svcdir"]
    /\ UNCHANGED <<mu, op, req, loc, result, trace, eh, tasks, fsVars, initVars, otelReporter, hookLog, calls, caller>>

\* s.mu.Lock(), first half.
DeployLock(p) ==
    /\ pc[p] = "lock"
    /\ NoneReturning
    /\ LockAnnounce(p)
    /\ pc' = [pc EXCEPT ![p] = "lockwait"]
    /\ UNCHANGED <<op, req, loc, result, trace, eh, tasks, fsVars, initVars, otelReporter, hookLog, calls, caller>>

\* s.mu.Lock(), second half: Deploy is inside its critical section.
DeployLocked(p) ==
    /\ pc[p] = "lockwait"
    /\ NoneReturning
    /\ LockAdmit(p)
    /\ pc' = [pc EXCEPT ![p] = "svcdir"]
    /\ UNCHANGED <<op, req, loc, result, trace, eh, tasks, fsVars, initVars, otelReporter, hookLog, calls, caller>>

\* s.workspaceMgr.EnsureServiceDir(params.Service): os.MkdirAll.
DeployEnsureServiceDir(p) ==
    LET svc == req[p].service IN
    /\ pc[p] = "svcdir"
    /\ NoneReturning
    /\ \/ /\ serviceDirs' = serviceDirs \cup {svc}
          /\ Log(p, "ensure_service_dir", TRUE, svc \notin serviceDirs)
          /\ pc' = [pc EXCEPT ![p] = "logdir"]
          /\ UNCHANGED <<mu, result>>
       \/ /\ Log(p, "ensure_service_dir", FALSE, FALSE)
          /\ DeployFail(p, "failed to create service directory")
          /\ UNCHANGED serviceDirs
    /\ UNCHANGED <<op, req, loc, eh, tasks, logDirs, unitFiles, initVars, otelReporter, hookLog, calls, caller>>

\* A faulty variant: EnsureLogDir returns nil without making the directory.
DeployEnsureLogDirSkipped(p) ==
    /\ pc[p] = "logdir"
    /\ NoneReturning
    /\ Log(p, "ensure_log_dir", TRUE, FALSE)
    /\ pc' = [pc EXCEPT ![p] = "otel"]
    /\ UNCHANGED <<mu, op, req, loc, result, eh, tasks, fsVars, initVars, otelReporter, hookLog, calls, caller>>

\* s.workspaceMgr.EnsureLogDir(params.Service): os.MkdirAll.
DeployEnsureLogDir(p) ==
    LET svc == req[p].service IN
    /\ pc[p] = "logdir"
    /\ NoneReturning
    /\ \/ /\ logDirs' = logDirs \cup {svc}
          /\ Log(p, "ensure_log_dir", TRUE, svc \notin logDirs)
          /\ pc' = [pc EXCEPT ![p] = "otel"]
          /\ UNCHANGED <<mu, result>>
       \/ /\ Log(p, "ensure_log_dir", FALSE, FALSE)
          /\ DeployFail(p, "failed to create log directory")
          /\ UNCHANGED logDirs
    /\ UNCHANGED <<op, req, loc, eh, tasks, serviceDirs, unitFiles, initVars, otelReporter, hookLog, calls, caller>>

\* The trace reporter is initialised when the request enables it; a failure
\* is only logged and leaves the field as it was.
DeployInitOTEL(p) ==
    /\ pc[p] = "otel"
    /\ NoneReturning
    /\ IF req[p].notifications.otel
       THEN \/ /\ otelReporter' = req[p].service
               /\ Log(p, "otel_init", TRUE, FALSE)
            \/ /\ UNCHANGED otelReporter
               /\ Log(p, "otel_init", FALSE, FALSE)
       ELSE UNCHANGED <<otelReporter, trace>>
    /\ pc' = [pc EXCEPT ![p] = "prehooks"]
    /\ UNCHANGED <<mu, op, req, loc, result, eh, tasks, fsVars, initVars, hookLog, calls, caller>>

\* `if len(params.Hooks) > 0 { events := s.hookExecutor.ExecuteHooks(...`
\* for the pre_start phase: the call is made.
DeployPreHooks(p) ==
    /\ pc[p] = "prehooks"
    /\ NoneReturning
    /\ IF Len(req[p].hooks) > 0
       THEN /\ EngineStart(p, req[p].hooks, HookPreStart)
            /\ pc' = [pc EXCEPT ![p] = "prewait"]
       ELSE /\ pc' = [pc EXCEPT ![p] = "url"]
            /\ UNCHANGED eh
    /\ UNCHANGED <<mu, op, req, loc, result, trace, tasks, fsVars, initVars, otelReporter, hookLog, calls, caller>>

\* A faulty variant: the pre_start events are reported but never checked for failure.
PreStartGateOpen(events) == FALSE

\* `for _, event := range events { if event.Status == "failure" {` ... return
PreStartGate(events) == \E k \in 1..Len(events) : events[k].status = "failure"

\* ExecuteHooks has returned the pre_start events: the first event that is
\* a failure ends Deploy with "pre-start hook failed".
DeployPreHooksDone(p) ==
    /\ pc[p] = "prewait"
    /\ NoneReturning
    /\ eh[p].dpc = "returned"
    /\ IF PreStartGate(eh[p].events)
       THEN /\ Log(p, "pre_hooks", FALSE, FALSE)
            /\ DeployFail(p, "pre-start hook failed")
       ELSE /\ Log(p, "pre_hooks", TRUE, FALSE)
            /\ pc' = [pc EXCEPT ![p] = "url"]
            /\ UNCHANGED <<mu, result>>
    /\ UNCHANGED <<op, req, loc, eh, tasks, fsVars, initVars, otelReporter, hookLog, calls, caller>>

\* A faulty variant: once the URL is found valid the artifact is taken to be in place.
DeployValidateURLOnly(p) ==
    /\ pc[p] = "url"
    /\ NoneReturning
    /\ IF ValidateURL(req[p].url)
       THEN /\ Log(p, "validate_url", TRUE, FALSE)
            /\ pc' = [pc EXCEPT ![p] = "config"]
            /\ UNCHANGED <<mu, result>>
       ELSE /\ Log(p, "validate_url", FALSE, FALSE)
            /\ DeployFail(p, "invalid package URL")
    /\ UNCHANGED <<op, req, loc, eh, tasks, fsVars, initVars, otelReporter, hookLog, calls, caller>>

\* s.artifactMgr.ValidateURL(params.PackageURL)
DeployValidateURL(p) ==
    /\ pc[p] = "url"
    /\ NoneReturning
    /\ IF ValidateURL(req[p].url)
       THEN /\ Log(p, "validate_url", TRUE, FALSE)
            /\ pc' = [pc EXCEPT ![p] = "download"]
            /\ UNCHANGED <<mu, result>>
       ELSE /\ Log(p, "validate_url", FALSE, FALSE)
            /\ DeployFail(p, "invalid package URL")
    /\ UNCHANGED <<op, req, loc, eh, tasks, fsVars, initVars, otelReporter, hookLog, calls, caller>>

\* What an archive can hold: its top-level folder names, in archive order.
FolderLists == {<<>>, <<"app">>, <<"app", "lib">>}

\* artifact.Manager.GetFirstFolder
GetFirstFolder(folders) == IF Len(folders) > 0 THEN folders[1] ELSE ""

\* A faulty variant: the check that a folder was extracted is left out.
DeployDownloadAndExtractUnchecked(p) ==
    LET svc == req[p].service IN
    /\ pc[p] = "download"
    /\ NoneReturning
    /\ \/ /\ Log(p, "download_extract", FALSE, FALSE)
          /\ DeployFail(p, "failed to download and extract artifact")
          /\ UNCHANGED <<serviceDirs, loc>>
       \/ /\ serviceDirs' = serviceDirs \cup {svc}
          /\ Log(p, "download_extract", FALSE, svc \notin serviceDirs)
          /\ DeployFail(p, "failed to download and extract artifact")
          /\ UNCHANGED loc
       \/ \E folders \in FolderLists :
             /\ serviceDirs' = serviceDirs \cup {svc}
             /\ Log(p, "download_extract", TRUE, TRUE)
             /\ loc' = [loc EXCEPT ![p].folder = GetFirstFolder(folders)]
             /\ pc' = [pc EXCEPT ![p] = "config"]
             /\ UNCHANGED <<mu, result>>
    /\ UNCHANGED <<op, req, eh, tasks, logDirs, unitFiles, initVars, otelReporter, hookLog, calls, caller>>

\* s.artifactMgr.DownloadAndExtract(params.PackageURL, serviceDir), then
\* GetFirstFolder and the check that a folder was extracted.  The download
\* can fail (nothing is written); once it succeeded extractFile creates the
\* target directory and then extracts, which can fail as well.
DeployDownloadAndExtract(p) ==
    LET svc == req[p].service IN
    /\ pc[p] = "download"
    /\ NoneReturning
    /\ \/ /\ Log(p, "download_extract", FALSE, FALSE)
          /\ DeployFail(p, "failed to download and extract artifact")
          /\ UNCHANGED <<serviceDirs, loc>>
       \/ /\ serviceDirs' = serviceDirs \cup {svc}
          /\ Log(p, "download_extract", FALSE, svc \notin serviceDirs)
          /\ DeployFail(p, "failed to download and extract artifact")
          /\ UNCHANGED loc
       \/ \E folders \in FolderLists :
             /\ serviceDirs' = serviceDirs \cup {svc}
             /\ IF GetFirstFolder(folders) = ""
                THEN /\ Log(p, "download_extract", TRUE, svc \notin serviceDirs)
                     /\ DeployFail(p, "failed to extract folder name")
                     /\ UNCHANGED loc
                ELSE /\ Log(p, "download_extract", TRUE, TRUE)
                     /\ loc' = [loc EXCEPT ![p].folder = GetFirstFolder(folders)]
                     /\ pc' = [pc EXCEPT ![p] = "config"]
                     /\ UNCHANGED <<mu, result>>
    /\ UNCHANGED <<op, req, eh, tasks, logDirs, unitFiles, initVars, otelReporter, hookLog, calls, caller>>

\* A faulty variant: the caller's Config keeps the name, the working
\* directory and the start path it came with.
BuildConfigAsGiven(r, folder) ==
    LET serviceDir == GetServiceDir(r.service)
        workdir == Join(serviceDir, Text(folder))
        exec == Join(workdir, r.startCommand)
        base == IF r.config # NilConfig
                THEN r.config[1]
                ELSE ServiceConfig(r.service, r.service \o <<" Service">>, workdir, exec,
                                   NoEnvironment, "always", <<>>)
        withEnv == [base EXCEPT !.Environment = SetEnv(@, "LOG_DIR", GetLogDir(r.service))]
    IN IF Len(r.hooks) > 0
       THEN [withEnv EXCEPT !.Hooks = @ \o r.hooks]
       ELSE withEnv

\* The configuration Deploy builds for request r and the extracted folder:
\* the caller's Config with ServiceName, WorkingDirectory and ExecStart
\* overwritten, or the default one; then LOG_DIR is put into its Environment
\* and the request's hooks are appended to its Hooks.
BuildConfig(r, folder) ==
    LET serviceDir == GetServiceDir(r.service)
        workdir == Join(serviceDir, Text(folder))
        exec == Join(workdir, r.startCommand)
        base == IF r.config # NilConfig
                THEN [r.config[1] EXCEPT !.ServiceName = r.service,
                                         !.WorkingDirectory = workdir,
                                         !.ExecStart = exec]
                ELSE ServiceConfig(r.service, r.service \o <<" Service">>, workdir, exec,
                                   NoEnvironment, "always", <<>>)
        withEnv == [base EXCEPT !.Environment = SetEnv(@, "LOG_DIR", GetLogDir(r.service))]
    IN IF Len(r.hooks) > 0
       THEN [withEnv EXCEPT !.Hooks = @ \o r.hooks]
       ELSE withEnv

\* The ServiceConfig is built (ServiceName, WorkingDirectory and ExecStart
\* computed, LOG_DIR injected, the request's hooks appended); no collaborator
\* is called.  `config = params.Config` makes config the caller's own
\* object, so what Deploy assigns to config is assigned to the request's
\* Config.
DeployBuildConfig(p) ==
    LET config == BuildConfig(req[p], loc[p].folder) IN
    /\ pc[p] = "config"
    /\ NoneReturning
    /\ Log(p, "build_config", TRUE, FALSE)
    /\ pc' = [pc EXCEPT ![p] = "write"]
    /\ loc' = [loc EXCEPT ![p].config = Ref(config)]
    /\ req' = IF req[p].config # NilConfig
              THEN [req EXCEPT ![p].config = Ref(config)]
              ELSE req
    /\ UNCHANGED <<mu, op, result, eh, tasks, fsVars, initVars, otelReporter, hookLog, calls, caller>>

\* systemdConfig.WriteFile(systemdFile): os.Create can fail (no file), and
\* once the file is created tmpl.Execute can fail (the file stays).
DeployWriteFile(p) ==
    LET svc == req[p].service IN
    /\ pc[p] = "write"
    /\ NoneReturning
    /\ \/ /\ unitFiles' = unitFiles \cup {svc}
          /\ Log(p, "write_file", TRUE, TRUE)
          /\ pc' = [pc EXCEPT ![p] = "reload"]
          /\ UNCHANGED <<mu, result>>
       \/ /\ unitFiles' = unitFiles \cup {svc}
          /\ Log(p, "write_file", FALSE, TRUE)
          /\ DeployFail(p, "failed to write systemd config")
       \/ /\ UNCHANGED unitFiles
          /\ Log(p, "write_file", FALSE, FALSE)
          /\ DeployFail(p, "failed to write systemd config")
    /\ UNCHANGED <<op, req, loc, eh, tasks, serviceDirs, logDirs, initVars, otelReporter, hookLog, calls, caller>>

\* A faulty variant: the error of ReloadDaemon is logged and Deploy goes on.
DeployReloadIgnored(p) ==
    /\ pc[p] = "reload"
    /\ NoneReturning
    /\ \/ Log(p, "reload", TRUE, TRUE)
       \/ Log(p, "reload", FALSE, FALSE)
    /\ pc' = [pc EXCEPT ![p] = "enable"]
    /\ UNCHANGED <<mu, op, req, loc, result, eh, tasks, fsVars, initVars, otelReporter, hookLog, calls, caller>>

\* systemd.ReloadDaemon()
DeployReload(p) ==
    /\ pc[p] = "reload"
    /\ NoneReturning
    /\ \/ /\ Log(p, "reload", TRUE, TRUE)
          /\ pc' = [pc EXCEPT ![p] = "enable"]
          /\ UNCHANGED <<mu, result>>
       \/ /\ Log(p, "reload", FALSE, FALSE)
          /\ DeployFail(p, "failed to reload systemd daemon")
    /\ UNCHANGED <<op, req, loc, eh, tasks, fsVars, initVars, otelReporter, hookLog, calls, caller>>

\* A faulty variant: a failed EnableUnit is compensated by deleting the unit file.
DeployEnableRollback(p) ==
    LET svc == req[p].service IN
    /\ pc[p] = "enable"
    /\ NoneReturning
    /\ \/ /\ enabled' = enabled \cup {svc}
          /\ Log(p, "enable", TRUE, TRUE)
          /\ pc' = [pc EXCEPT ![p] = "start"]
          /\ UNCHANGED <<mu, result, unitFiles>>
       \/ /\ UNCHANGED enabled
          /\ unitFiles' = unitFiles \ {svc}
          /\ Log(p, "enable", FALSE, FALSE)
          /\ DeployFail(p, "failed to enable service")
    /\ UNCHANGED <<op, req, loc, eh, tasks, serviceDirs, logDirs, active, otelReporter, hookLog, calls, caller>>

\* systemd.EnableUnit(params.Service)
DeployEnable(p) ==
    LET svc == req[p].service IN
    /\ pc[p] = "enable"
    /\ NoneReturning
    /\ \/ /\ enabled' = enabled \cup {svc}
          /\ Log(p, "enable", TRUE, TRUE)
          /\ pc' = [pc EXCEPT ![p] = "start"]
          /\ UNCHANGED <<mu, result>>
       \/ /\ UNCHANGED enabled
          /\ Log(p, "enable", FALSE, FALSE)
          /\ DeployFail(p, "failed to enable service")
    /\ UNCHANGED <<op, req, loc, eh, tasks, fsVars, active, otelReporter, hookLog, calls, caller>>

\* A faulty variant: the unit is started in the mode "isolate", which stops
\* every other unit.
DeployStartAlone(p) ==
    LET svc == req[p].service IN
    /\ pc[p] = "start"
    /\ NoneReturning
    /\ \/ /\ active' = {svc}
          /\ Log(p, "start", TRUE, TRUE)
          /\ pc' = [pc EXCEPT ![p] = "posthooks"]
          /\ UNCHANGED <<mu, result>>
       \/ /\ UNCHANGED active
          /\ Log(p, "start", FALSE, FALSE)
          /\ DeployFail(p, "failed to start service")
    /\ UNCHANGED <<op, req, loc, eh, tasks, fsVars, enabled, otelReporter, hookLog, calls, caller>>

\* A faulty variant: a failed start is only logged and Deploy goes on.
DeployStartIgnored(p) ==
    LET svc == req[p].service IN
    /\ pc[p] = "start"
    /\ NoneReturning
    /\ \/ /\ active' = active \cup {svc}
          /\ Log(p, "start", TRUE, TRUE)
       \/ /\ UNCHANGED active
          /\ Log(p, "start", FALSE, FALSE)
    /\ pc' = [pc EXCEPT ![p] = "posthooks"]
    /\ UNCHANGED <<mu, result>>
    /\ UNCHANGED <<op, req, loc, eh, tasks, fsVars, enabled, otelReporter, hookLog, calls, caller>>

\* systemd.Send(params.Service, "start", "replace")
DeployStart(p) ==
    LET svc == req[p].service IN
    /\ pc[p] = "start"
    /\ NoneReturning
    /\ \/ /\ active' = active \cup {svc}
          /\ Log(p, "start", TRUE, TRUE)
          /\ pc' = [pc EXCEPT ![p] = "posthooks"]
          /\ UNCHANGED <<mu, result>>
       \/ /\ UNCHANGED active
          /\ Log(p, "start", FALSE, FALSE)
          /\ DeployFail(p, "failed to start service")
    /\ UNCHANGED <<op, req, loc, eh, tasks, fsVars, enabled, otelReporter, hookLog, calls, caller>>

\* `if len(params.Hooks) > 0 { events := s.hookExecutor.ExecuteHooks(...`
\* for the post_start phase: the call is made.
DeployPostHooks(p) ==
    /\ pc[p] = "posthooks"
    /\ NoneReturning
    /\ IF Len(req[p].hooks) > 0
       THEN /\ EngineStart(p, req[p].hooks, HookPostStart)
            /\ pc' = [pc EXCEPT ![p] = "postwait"]
       ELSE /\ pc' = [pc EXCEPT ![p] = "notify"]
            /\ UNCHANGED eh
    /\ UNCHANGED <<mu, op, req, loc, result, trace, tasks, fsVars, initVars, otelReporter, hookLog, calls, caller>>

\* A faulty variant: the post_start events are checked the way the pre_start ones are.
DeployPostHooksDoneChecked(p) ==
    /\ pc[p] = "postwait"
    /\ NoneReturning
    /\ eh[p].dpc = "returned"
    /\ IF PreStartGate(eh[p].events)
       THEN /\ Log(p, "post_hooks", FALSE, FALSE)
            /\ DeployFail(p, "post-start hook failed")
       ELSE /\ Log(p, "post_hooks", TRUE, FALSE)
            /\ pc' = [pc EXCEPT ![p] = "notify"]
            /\ UNCHANGED <<mu, result>>
    /\ UNCHANGED <<op, req, loc, eh, tasks, fsVars, initVars, otelReporter, hookLog, calls, caller>>

\* ExecuteHooks has returned the post_start events: they are reported, none
\* is checked.
DeployPostHooksDone(p) ==
    /\ pc[p] = "postwait"
    /\ NoneReturning
    /\ eh[p].dpc = "returned"
    /\ Log(p, "post_hooks", \A k \in 1..Len(eh[p].events) : eh[p].events[k].status # "failure", FALSE)
    /\ pc' = [pc EXCEPT ![p] = "notify"]
    /\ UNCHANGED <<mu, op, req, loc, result, eh, tasks, fsVars, initVars, otelReporter, hookLog, calls, caller>>

\* The "deployed" event is reported, the callback goroutine is started when
\* the request enables it, and Deploy returns nil.
DeployNotify(p) ==
    /\ pc[p] = "notify"
    /\ NoneReturning
    /\ tasks' = IF req[p].notifications.callback
                THEN tasks \cup {[kind |-> "callback", owner |-> p, phase |-> "",
                                  idx |-> 0, hook |-> PreOff, made |-> 0]}
                ELSE tasks
    /\ Log(p, "notify", TRUE, FALSE)
    /\ Finish(p, "ok")
    /\ Unlock(p)
    /\ UNCHANGED <<op, req, loc, eh, fsVars, initVars, otelReporter, hookLog, calls, caller>>

\* The operation has returned to its caller, which is free to call again.
Return(p) ==
    /\ pc[p] = "ret"
    /\ pc' = [pc EXCEPT ![p] = "idle"]
    /\ op' = [op EXCEPT ![p] = "none"]
    /\ req' = [req EXCEPT ![p] = NoReq]
    /\ loc' = [loc EXCEPT ![p] = NoLoc]
    /\ result' = [result EXCEPT ![p] = "none"]
    /\ trace' = [trace EXCEPT ![p] = <<>>]
    /\ eh' = [eh EXCEPT ![p] = NoEngine]
    /\ hookLog' = {l \in hookLog : l.owner # p}
    /\ UNCHANGED <<mu, tasks, fsVars, initVars, otelReporter, calls, caller>>

\* Deploy has returned to a caller that keeps the request object it passed
\* and the error it got.
HandBack(p) ==
    /\ pc[p] = "ret"
    /\ op[p] = "Deploy"
    /\ caller' = [params |-> req[p], err |-> result[p]]
    /\ pc' = [pc EXCEPT ![p] = "idle"]
    /\ op' = [op EXCEPT ![p] = "none"]
    /\ req' = [req EXCEPT ![p] = NoReq]
    /\ loc' = [loc EXCEPT ![p] = NoLoc]
    /\ result' = [result EXCEPT ![p] = "none"]
    /\ trace' = [trace EXCEPT ![p] = <<>>]
    /\ eh' = [eh EXCEPT ![p] = NoEngine]
    /\ hookLog' = {l \in hookLog : l.owner # p}
    /\ UNCHANGED <<mu, tasks, fsVars, initVars, otelReporter, calls>>

\* ------------------------------------------------- the simple operations

\* The entry of every operation that takes a service name: the name is
\* validated first and "validation failed" is returned on failure.
Enter(p, o, name) ==
    /\ Invoke(p)
    /\ UNCHANGED caller
    /\ op' = [op EXCEPT ![p] = o]
    /\ req' = [req EXCEPT ![p] = [NoReq EXCEPT !.service = name]]
    /\ trace' = [trace EXCEPT ![p] = <<>>]

\* Start: ValidateServiceName, then systemd.Send(name, "start", "replace").
Start(p, name) ==
    /\ Enter(p, "Start", name)
    /\ IF ValidateServiceName(name) # "nil"
       THEN Finish(p, "validation failed") /\ UNCHANGED active
       ELSE \/ active' = active \cup {name} /\ Finish(p, "ok")
            \/ UNCHANGED active /\ Finish(p, "failed to start service")
    /\ UNCHANGED <<mu, loc, eh, tasks, fsVars, enabled, otelReporter, hookLog>>

\* Restart: ValidateServiceName, then systemd.Send(name, "restart", "replace").
Restart(p, name) ==
    /\ Enter(p, "Restart", name)
    /\ IF ValidateServiceName(name) # "nil"
       THEN Finish(p, "validation failed") /\ UNCHANGED active
       ELSE \/ active' = active \cup {name} /\ Finish(p, "ok")
            \/ UNCHANGED active /\ Finish(p, "failed to restart service")
    /\ UNCHANGED <<mu, loc, eh, tasks, fsVars, enabled, otelReporter, hookLog>>

\* GetStatus: ValidateServiceName, then systemd.Load(name).
GetStatus(p, name) ==
    /\ Enter(p, "GetStatus", name)
    /\ IF ValidateServiceName(name) # "nil"
       THEN Finish(p, "validation failed")
       ELSE \/ Finish(p, "ok")
            \/ Finish(p, "failed to get service status")
    /\ UNCHANGED <<mu, loc, eh, tasks, fsVars, initVars, otelReporter, hookLog>>

\* GetLogs: ValidateServiceName, then logs.GetServiceLogs(ctx, name, lines).
GetLogs(p, name) ==
    /\ Enter(p, "GetLogs", name)
    /\ IF ValidateServiceName(name) # "nil"
       THEN Finish(p, "validation failed")
       ELSE \/ Finish(p, "ok")
            \/ Finish(p, "failed to get service logs")
    /\ UNCHANGED <<mu, loc, eh, tasks, fsVars, initVars, otelReporter, hookLog>>

\* The first step of Stop and of Remove: ValidateServiceName, then
\* systemd.Send(name, "stop", "replace").
StopUnit(p, o, name, next) ==
    /\ Enter(p, o, name)
    /\ IF ValidateServiceName(name) # "nil"
       THEN Finish(p, "validation failed") /\ UNCHANGED active
       ELSE \/ /\ active' = active \ {name}
               /\ pc' = [pc EXCEPT ![p] = next]
               /\ result' = [result EXCEPT ![p] = "none"]
            \/ UNCHANGED active /\ Finish(p, "failed to stop service")
    /\ UNCHANGED <<mu, loc, eh, tasks, fsVars, enabled, otelReporter, hookLog>>

Stop(p, name) == StopUnit(p, "Stop", name, "stop_disable")

\* Stop, step 2: systemd.DisableUnit(name).
StopDisable(p) ==
    /\ pc[p] = "stop_disable"
    /\ NoneReturning
    /\ \/ enabled' = enabled \ {req[p].service} /\ Finish(p, "ok")
       \/ UNCHANGED enabled /\ Finish(p, "failed to disable service")
    /\ UNCHANGED <<mu, op, req, loc, trace, eh, tasks, fsVars, active, otelReporter, hookLog, calls, caller>>

Remove(p, name) == StopUnit(p, "Remove", name, "rm_disable")

\* A faulty variant: Remove's second step waits until no Deploy holds s.mu.
RemoveDisableLocked(p) ==
    /\ pc[p] = "rm_disable"
    /\ NoneReturning
    /\ ~mu.held
    /\ \/ /\ enabled' = enabled \ {req[p].service}
          /\ pc' = [pc EXCEPT ![p] = "rm_file"]
          /\ UNCHANGED result
       \/ UNCHANGED enabled /\ Finish(p, "failed to disable service")
    /\ UNCHANGED <<mu, op, req, loc, trace, eh, tasks, fsVars, active, otelReporter, hookLog, calls, caller>>

\* Remove, step 2: systemd.DisableUnit(name).
RemoveDisable(p) ==
    /\ pc[p] = "rm_disable"
    /\ NoneReturning
    /\ \/ /\ enabled' = enabled \ {req[p].service}
          /\ pc' = [pc EXCEPT ![p] = "rm_file"]
          /\ UNCHANGED result
       \/ UNCHANGED enabled /\ Finish(p, "failed to disable service")
    /\ UNCHANGED <<mu, op, req, loc, trace, eh, tasks, fsVars, active, otelReporter, hookLog, calls, caller>>

\* Remove, step 3: os.Remove(systemdFile), which fails when there is no
\* such file and can fail when there is one.
RemoveUnitFile(p) ==
    /\ pc[p] = "rm_file"
    /\ NoneReturning
    /\ \/ /\ req[p].service \in unitFiles
          /\ unitFiles' = unitFiles \ {req[p].service}
          /\ pc' = [pc EXCEPT ![p] = "rm_reload"]
          /\ UNCHANGED result
       \/ UNCHANGED unitFiles /\ Finish(p, "failed to remove systemd service file")
    /\ UNCHANGED <<mu, op, req, loc, trace, eh, tasks, serviceDirs, logDirs, initVars, otelReporter, hookLog, calls, caller>>

\* Remove, step 4: systemd.ReloadDaemon().
RemoveReload(p) ==
    /\ pc[p] = "rm_reload"
    /\ NoneReturning
    /\ \/ pc' = [pc EXCEPT ![p] = "rm_cleanup"] /\ UNCHANGED result
       \/ Finish(p, "failed to reload systemd daemon")
    /\ UNCHANGED <<mu, op, req, loc, trace, eh, tasks, fsVars, initVars, otelReporter, hookLog, calls, caller>>

\* A faulty variant: a failed cleanup is returned as Remove's error.
RemoveCleanupChecked(p) ==
    /\ pc[p] = "rm_cleanup"
    /\ NoneReturning
    /\ \/ /\ serviceDirs' = serviceDirs \ {req[p].service}
          /\ logDirs' = logDirs \ {req[p].service}
          /\ Finish(p, "ok")
       \/ /\ serviceDirs' = serviceDirs \ {req[p].service}
          /\ UNCHANGED logDirs
          /\ Finish(p, "failed to cleanup workspace")
       \/ /\ UNCHANGED <<serviceDirs, logDirs>>
          /\ Finish(p, "failed to cleanup workspace")
    /\ UNCHANGED <<mu, op, req, loc, trace, eh, tasks, unitFiles, initVars, otelReporter, hookLog, calls, caller>>

\* Remove, step 5: workspaceMgr.CleanupService(name) removes the service
\* directory and then the log directory; its error is only logged.
RemoveCleanup(p) ==
    /\ pc[p] = "rm_cleanup"
    /\ NoneReturning
    /\ \/ /\ serviceDirs' = serviceDirs \ {req[p].service}
          /\ logDirs' = logDirs \ {req[p].service}
       \/ /\ serviceDirs' = serviceDirs \ {req[p].service}
          /\ UNCHANGED logDirs
       \/ UNCHANGED <<serviceDirs, logDirs>>
    /\ Finish(p, "ok")
    /\ UNCHANGED <<mu, op, req, loc, trace, eh, tasks, unitFiles, initVars, otelReporter, hookLog, calls, caller>>

\* ListServices is called: s.mu.RLock().
ListServices(p) ==
    /\ Invoke(p)
    /\ RLock(p)
    /\ op' = [op EXCEPT ![p] = "ListServices"]
    /\ pc' = [pc EXCEPT ![p] = "ls_list"]
    /\ UNCHANGED <<req, loc, result, trace, eh, tasks, fsVars, initVars, otelReporter, hookLog, caller>>

\* ListServices: systemd.ListUnits and the filtering, then the deferred
\* RUnlock.
ListServicesList(p) ==
    /\ pc[p] = "ls_list"
    /\ NoneReturning
    /\ RUnlock(p)
    /\ \/ Finish(p, "ok")
       \/ Finish(p, "failed to list systemd units")
    /\ UNCHANGED <<op, req, loc, trace, eh, tasks, fsVars, initVars, otelReporter, hookLog, calls, caller>>

\* ------------------------------------------------------ the specifications

DeployStep(p) ==
    \/ DeployLock(p)
    \/ DeployLocked(p)
    \/ DeployEnsureServiceDir(p)
    \/ DeployEnsureLogDir(p)
    \/ DeployInitOTEL(p)
    \/ DeployPreHooks(p)
    \/ DeployPreHooksDone(p)
    \/ DeployValidateURL(p)
    \/ DeployDownloadAndExtract(p)
    \/ DeployBuildConfig(p)
    \/ DeployWriteFile(p)
    \/ DeployReload(p)
    \/ DeployEnable(p)
    \/ DeployStart(p)
    \/ DeployPostHooks(p)
    \/ DeployPostHooksDone(p)
    \/ DeployNotify(p)

SimpleCall(p) ==
    \/ \E name \in ServiceNames : Start(p, name)
    \/ \E name \in ServiceNames : Restart(p, name)
    \/ \E name \in ServiceNames : GetStatus(p, name)
    \/ \E name \in ServiceNames : GetLogs(p, name)
    \/ \E name \in ServiceNames : Stop(p, name)
    \/ \E name \in ServiceNames : Remove(p, name)
    \/ ListServices(p)

SimpleStep(p) ==
    \/ StopDisable(p)
    \/ RemoveDisable(p)
    \/ RemoveUnitFile(p)
    \/ RemoveReload(p)
    \/ RemoveCleanup(p)
    \/ ListServicesList(p)

Detached ==
    \/ \E t \in tasks : AsyncAttempt(t)
    \/ \E t \in tasks : CallbackDone(t)

\* Concurrent callers of every operation, MaxCalls invocations in all.
Next ==
    \/ \E p \in Procs : Return(p)
    \/ \E p \in Procs : Callable(p) /\ \E r \in ConcurrentRequests : DeployCall(p, r)
    \/ \E p \in Procs : Callable(p) /\ SimpleCall(p)
    \/ \E p \in Procs : DeployStep(p)
    \/ \E p \in Procs : EngineStep(p)
    \/ \E p \in Procs : SimpleStep(p)

Spec == Init /\ [][Next]_vars

\* One caller that deploys MaxCalls times, with every kind of request.
NextDeploy ==
    \/ Return(1)
    \/ Callable(1) /\ \E r \in DeployRequests : DeployCall(1, r)
    \/ DeployStep(1)
    \/ EngineStep(1)
    \/ Detached

SpecDeploy == Init /\ [][NextDeploy]_vars

\* ---- ExecuteHooks alone, called once with any hook list and target phase

\* The largest Retry of a hook.
MaxRetry == 2

\* The largest length of a string or list drawn as an argument.
MaxLen == 3

\* A Config as a caller supplies it: a name, a working directory and a
\* start path of its own, an environment entry and a post_start command hook.
PostCommand == Hook(HookPostStart, "command", 0, TRUE, FALSE)
CallerConfig ==
    ServiceConfig(<<"other">>, <<"custom">>, <<"/home/other">>, <<"/home/other", "/", "old">>,
                  [k \in {"MODE"} |-> <<"prod">>], "on-failure", <<PostCommand>>)

\* The requests of the life-cycle runs: one service, with and without a
\* Config of the caller, without a hook, with a synchronous pre_start hook
\* and with a pre_start hook that is not enabled; a service whose accepted
\* name begins like a unit of the system; and a URL that is refused.
LifeRequests ==
    {DeployRequestWith(SvcA, GoodURL, hs, [otel |-> FALSE, callback |-> FALSE], c) :
        hs \in {<<>>, <<PreOnce>>, <<PreOff>>}, c \in {NilConfig, Ref(CallerConfig)}}
    \cup {DeployRequestWith(s, u, <<>>, [otel |-> FALSE, callback |-> FALSE], NilConfig) :
             <<s, u>> \in {<<<<"dbus", "-", "0">>, GoodURL>>, <<SvcA, BadURL>>}}

RemoveStep(p) ==
    \/ RemoveDisable(p)
    \/ RemoveUnitFile(p)
    \/ RemoveReload(p)
    \/ RemoveCleanup(p)

\* One caller that deploys a service, keeps or drops the request, and then
\* deploys again (with a new request or the one kept) or removes the
\* service, MaxCalls invocations in all.
NextLife ==
    \/ Return(1)
    \/ HandBack(1)
    \/ Callable(1) /\ \E r \in LifeRequests : DeployCall(1, r)
    \/ Redeploy(1)
    \/ Remove(1, SvcA)
    \/ DeployStep(1)
    \/ EngineStep(1)
    \/ RemoveStep(1)

SpecLife == Init /\ [][NextLife]_vars

HookTypes == {HookPreStart, HookPostStart}

Hooks ==
    {Hook(t, w, r, e, a) :
        t \in HookTypes, w \in {"command", "none"}, r \in 0..MaxRetry,
        e \in BOOLEAN, a \in BOOLEAN}

InitHooks ==
    /\ mu = [w |-> NoProc, held |-> FALSE, readers |-> {}]
    /\ pc = [p \in Procs |-> IF p = 1 THEN "hooks" ELSE "idle"]
    /\ op = [p \in Procs |-> IF p = 1 THEN "ExecuteHooks" ELSE "none"]
    /\ req = [p \in Procs |-> NoReq]
    /\ loc = [p \in Procs |-> NoLoc]
    /\ result = [p \in Procs |-> "none"]
    /\ trace = [p \in Procs |-> <<>>]
    /\ \E hooks \in SeqsUpTo(Hooks, MaxHooks) : \E phase \in HookTypes :
          eh = [p \in Procs |-> IF p = 1 THEN Engine(hooks, phase) ELSE NoEngine]
    /\ tasks = {}
    /\ serviceDirs = {}
    /\ logDirs = {}
    /\ unitFiles = {}
    /\ enabled = {}
    /\ active = {}
    /\ otelReporter = NoReporter
    /\ hookLog = {}
    /\ calls = 0
    /\ caller = NoCaller

NextHooks ==
    \/ EngineStep(1)
    \/ \E t \in tasks : AsyncAttempt(t)

SpecHooks == InitHooks /\ [][NextHooks]_vars

\* ------------------------------------------- functions on drawn arguments

\* strconv.Atoi: an optional sign and one or more decimal digits, or an error.
Atoi(str) ==
    LET digit == <<"0", "1", "2", "3", "4", "5", "6", "7", "8", "9">>
        signed == str # <<>> /\ Head(str) \in {"-", "+"}
        digits == IF signed THEN Tail(str) ELSE str
        ok == digits # <<>> /\ \A i \in 1..Len(digits) : \E d \in 0..9 : digit[d + 1] = digits[i]
        RECURSIVE Decimal(_)
        Decimal(ds) ==
            IF ds = <<>> THEN 0
            ELSE 10 * Decimal(SubSeq(ds, 1, Len(ds) - 1))
                 + (CHOOSE d \in 0..9 : digit[d + 1] = ds[Len(ds)])
    IN IF ~ok THEN [ok |-> FALSE, value |-> 0]
       ELSE [ok |-> TRUE,
             value |-> IF signed /\ Head(str) = "-" THEN 0 - Decimal(digits) ELSE Decimal(digits)]

\* strconv.Itoa of a positive number.
RECURSIVE Itoa(_)
Itoa(n) ==
    LET digit == <<"0", "1", "2", "3", "4", "5", "6", "7", "8", "9">>
    IN IF n < 10 THEN <<digit[n + 1]>>
       ELSE Append(Itoa(n \div 10), digit[(n % 10) + 1])

\* A faulty variant: the handler passes the parsed count on as it is, and 0
\* when there is none.
QueryLinesAsGiven(linesStr) ==
    IF linesStr # <<>> /\ Atoi(linesStr).ok THEN Atoi(linesStr).value ELSE 0

\* App.GetLogs: lines := 50, replaced by the query parameter when it is an
\* integer greater than 0.
QueryLines(linesStr) ==
    IF linesStr # <<>> /\ Atoi(linesStr).ok /\ Atoi(linesStr).value > 0
    THEN Atoi(linesStr).value
    ELSE 50

\* logs.GetServiceLogs: the arguments journalctl is run with.
GetServiceLogs(serviceName, lines) ==
    <<<<"-u">>, serviceName>>
    \o (IF lines > 0 THEN <<<<"-n">>, Itoa(lines)>> ELSE <<>>)
    \o <<<<"--no-pager">>, <<"--output=json">>>>

\* App.GetLogs calling service.GetLogs calling logs.GetServiceLogs: the
\* request made to the log subsystem, none when the name is not valid.
AppGetLogs(serviceName, linesStr) ==
    IF ValidateServiceName(serviceName) # "nil" THEN <<>>
    ELSE GetServiceLogs(serviceName, QueryLines(linesStr))

\* A faulty variant: the template ranges over the Environment map in any order.
RenderingsAnyOrder(sc) ==
    LET u == UnitText(sc)
        env == {i \in 1..Len(u) : u[i][1] = "Environment"}
        orders == {g \in [env -> env] : \A i, j \in env : g[i] = g[j] => i = j}
    IN {[i \in 1..Len(u) |-> u[IF i \in env THEN g[i] ELSE i]] : g \in orders}

\* The texts tmpl.Execute can write for one configuration: text/template
\* ranges over a map in the sorted order of its keys, so there is one.
Renderings(sc) == {UnitText(sc)}

\* A faulty variant: no unit is taken for a system service.
isSystemServiceNone(serviceName) == FALSE

\* isSystemService: strings.HasPrefix(serviceName, prefix) for some prefix
\* of systemServices (those of the list that the drawn names can start with).
isSystemService(serviceName) ==
    LET systemServices == {"systemd-", "dbus", "sshd", "getty@", "api-systemd"}
    IN \E prefix \in systemServices : Head(serviceName) = prefix

\* The body of ListServices after ListUnits: the ServiceInfo of every unit
\* with the suffix ".service" that is no system service and whose file
\* /etc/systemd/system/<name>.service exists (os.Stat), in ListUnits' order.
ServiceInfos(units, files) ==
    LET TrimSuffix(name) == SubSeq(name, 1, Len(name) - 1)
        kept == SelectSeq(units, LAMBDA u : /\ u.Name[Len(u.Name)] = ".service"
                                            /\ ~isSystemService(u.Name)
                                            /\ TrimSuffix(u.Name) \in files)
    IN [i \in 1..Len(kept) |->
          [Name |-> TrimSuffix(kept[i].Name),
           Status |-> kept[i].ActiveState,
           Path |-> <<"/etc/systemd/system/">> \o TrimSuffix(kept[i].Name) \o <<".service">>,
           Enabled |-> kept[i].UnitFileState = "enabled"]]

\* One caller is about to call a function with an argument drawn from:
\* names over the characters of the pattern's class, white space, '.' and
\* '/'; URLs made of schemes, a path and extensions; a service name and a
\* `lines` query parameter; configurations with every set of Environment
\* keys and every hook list; units as systemd.ListUnits reports them, each
\* once, and the set of names with a unit file under /etc/systemd/system.
\* A faulty variant: every retry waits one second.
BackoffConstant(i) == 1

\* `time.Sleep(time.Second * time.Duration(i))` before the attempt of loop
\* index i > 0, in seconds.
Backoff(i) == i

\* A faulty variant: the deadline is set whatever hook.Timeout is.
HookContextAlways(ctx, hook, now) == now + hook.timeout

\* `if hook.Timeout > 0 { ctx, cancel = context.WithTimeout(ctx, hook.Timeout) }`:
\* a context is the instant of its deadline, 0 for none; the new context is
\* a variable of this call of ExecuteHook only.
HookContext(ctx, hook, now) ==
    IF hook.timeout > 0
    THEN IF ctx # 0 /\ ctx < now + hook.timeout THEN ctx ELSE now + hook.timeout
    ELSE ctx

\* ExecuteHook entered at the instant start with the context ctx: the
\* deadline is set once, before the loop; attempt i + 1 is made after a sleep
\* of Backoff(i) that the context does not interrupt; script[i + 1] tells how
\* long the command of that attempt runs and whether it then exits with 0.
\* exec.CommandContext kills a command that runs at the deadline and fails at
\* once when the context is done already.  The loop ends at the first
\* attempt without error or after max(Retry, 1) attempts.
ExecuteHook(ctx, hook, script, start) ==
    LET deadline == HookContext(ctx, hook, start)
        maxRetries == IF hook.retry <= 0 THEN 1 ELSE hook.retry
        RECURSIVE Loop(_, _, _, _)
        Loop(i, now, slept, made) ==
            IF i >= maxRetries
            THEN [attempts |-> made, slept |-> slept, end |-> now, status |-> "failure"]
            ELSE LET pause == IF i > 0 THEN Backoff(i) ELSE 0
                     at == now + pause
                     run == script[i + 1]
                     done == deadline # 0 /\ at >= deadline
                     killed == deadline # 0 /\ at < deadline /\ at + run.d > deadline
                     fin == IF done THEN at ELSE IF killed THEN deadline ELSE at + run.d
                     err == IF done \/ killed THEN "cancelled"
                            ELSE IF run.ok THEN "nil" ELSE "exit status 1"
                     attempts == Append(made, [at |-> at, end |-> fin, err |-> err])
                 IN IF err = "nil"
                    THEN [attempts |-> attempts, slept |-> slept + pause, end |-> fin,
                          status |-> "success"]
                    ELSE Loop(i + 1, fin, slept + pause, attempts)
    IN Loop(0, start, 0, <<>>)

InitPure ==
    LET Drawn(fn, arg) ==
            /\ mu = [w |-> NoProc, held |-> FALSE, readers |-> {}]
            /\ pc = [p \in Procs |-> "idle"]
            /\ op = [p \in Procs |-> IF p = 1 THEN fn ELSE "none"]
            /\ req = [p \in Procs |-> IF p = 1 THEN arg ELSE NoReq]
            /\ loc = [p \in Procs |-> NoLoc]
            /\ result = [p \in Procs |-> <<>>]
            /\ trace = [p \in Procs |-> <<>>]
            /\ eh = [p \in Procs |-> NoEngine]
            /\ tasks = {}
            /\ serviceDirs = {}
            /\ logDirs = {}
            /\ unitFiles = {}
            /\ enabled = {}
            /\ active = {}
            /\ otelReporter = NoReporter
            /\ hookLog = {}
            /\ calls = 0
            /\ caller = NoCaller
        ListedUnits ==
            {[Name |-> <<"app", ".service">>, ActiveState |-> "active", UnitFileState |-> "enabled"],
             [Name |-> <<"systemd-", "journald", ".service">>, ActiveState |-> "active", UnitFileState |-> "static"],
             [Name |-> <<"app", ".socket">>, ActiveState |-> "inactive", UnitFileState |-> "disabled"],
             [Name |-> <<"my-", "sshd", ".service">>, ActiveState |-> "failed", UnitFileState |-> "disabled"],
             [Name |-> <<"api-systemd", ".service">>, ActiveState |-> "active", UnitFileState |-> "enabled"]}
    IN \/ \E name \in SeqsUpTo(NameChars \cup SpaceChars \cup {".", "/"}, MaxLen) :
             Drawn("ValidateServiceName", name)
       \/ \E url \in SeqsUpTo({"https://", "http://", "ftp://", "x/app", ".zip", ".tar.gz", "/download"}, MaxLen) :
             Drawn("ValidateURL", url)
       \/ \E name \in {SvcA, <<"a", "/">>} :
             \E linesStr \in SeqsUpTo({"-", "+", "0", "1", "5", "x"}, MaxLen) :
                Drawn("GetLogs", [service |-> name, lines |-> linesStr])
       \/ \E env \in UNION {[K -> {<<"x">>, <<"/var">>}] : K \in SUBSET {"LOG_DIR", "MODE"}} :
             \E hs \in HookLists :
                Drawn("WriteFile", ServiceConfig(SvcA, <<"custom">>, <<"/srv/a">>,
                                                 <<"/srv/a", "/", "run">>, env, "always", hs))
       \/ \E units \in {us \in SeqsUpTo(ListedUnits, MaxLen) :
                           \A i, j \in 1..Len(us) : us[i] = us[j] => i = j} :
             \E files \in SUBSET {<<"app">>, <<"systemd-", "journald">>, <<"my-", "sshd">>, <<"api-systemd">>} :
                Drawn("ListServices", [units |-> units, files |-> files])
       \/ \E retry \in (0 - 1)..MaxLen, timeout \in {0, 15, 45} :
             \E script \in [1..MaxLen -> [d : {10, 30}, ok : BOOLEAN]] :
                \E next \in {[hook |-> [retry |-> 2, timeout |-> t],
                               script |-> [i \in 1..MaxLen |-> [d |-> d, ok |-> i > 1]]] :
                                 t \in {0, 15}, d \in {10, 30}} :
                   Drawn("ExecuteHooks", <<[hook |-> [retry |-> retry, timeout |-> timeout],
                                            script |-> script], next>>)

\* The call is made (again, up to MaxCalls times) and what it returns is kept.
Apply(fn, out) ==
    /\ op[1] = fn
    /\ calls < MaxCalls
    /\ calls' = calls + 1
    /\ result' = [result EXCEPT ![1] = Append(@, out)]
    /\ UNCHANGED <<mu, pc, op, req, loc, trace, eh, tasks, fsVars, initVars, otelReporter, hookLog, caller>>

NextPure ==
    \/ Apply("ValidateServiceName", ValidateServiceName(req[1]))
    \/ Apply("ValidateURL", ValidateURL(req[1]))
    \/ Apply("GetLogs", AppGetLogs(req[1].service, req[1].lines))
    \/ /\ op[1] = "WriteFile"
       /\ \E text \in Renderings(NewSystemdConfig(SvcA, <<"/srv/a">>, StartCommand, Ref(req[1]))) :
             Apply("WriteFile", text)
    \/ Apply("ListServices", ServiceInfos(req[1].units, req[1].files))
    \/ /\ op[1] = "ExecuteHooks"
       /\ LET first == ExecuteHook(0, req[1][1].hook, req[1][1].script, 0)
              second == ExecuteHook(0, req[1][2].hook, req[1][2].script, first.end)
          IN Apply("ExecuteHooks", <<first, second>>)

SpecPure == InitPure /\ [][NextPure]_vars

\* ------------------------------------------------------------- properties

\* The labels of Deploy between the return of s.mu.Lock() and the deferred
\* s.mu.Unlock().
CriticalLabels ==
    {"svcdir", "logdir", "otel", "prehooks", "prewait", "url", "download", "config",
     "write", "reload", "enable", "start", "posthooks", "postwait", "notify"}

InCritical(p) == op[p] = "Deploy" /\ pc[p] \in CriticalLabels

\* C1: at any moment at most one Deploy is between acquiring and releasing
\* the deployment lock, whatever the service names of the Deploys: a Deploy
\* is at a pipeline step exactly while it is the holder of the lock, so no
\* step of one Deploy falls between the acquisition and the return of another.
C1_OneDeployAtATime ==
    /\ \A p, q \in Procs : (InCritical(p) /\ InCritical(q)) => p = q
    /\ \A p \in Procs : InCritical(p) <=> (mu.held /\ mu.w = p)

\* C1, its case: a Deploy is inside the pipeline while a Deploy of another
\* service has been called and waits for the lock.
C1_Witness ==
    \E p, q \in Procs :
        /\ InCritical(p)
        /\ Len(trace[p]) > 0
        /\ op[q] = "Deploy"
        /\ pc[q] = "lock"
        /\ req[q].service # req[p].service

\* C2: a Deploy that has acquired the lock returns and releases it, on every
\* exit path, given that every collaborator call and hook attempt returns;
\* stated on finite runs: a Deploy that holds the lock is never left without
\* a step to take (its own next step or one of its ExecuteHooks call).
C2_LockedDeployCanStep ==
    \A p \in Procs :
        (InCritical(p) /\ NoneReturning) => ENABLED (DeployStep(p) \/ EngineStep(p))

\* C3: ExecuteHooks terminates for every finite hook list and every phase;
\* stated on finite runs: until it has returned, the dispatching loop or its
\* worker can take a step, that is, the two never wait for each other on the
\* two unbuffered channels.
C3_ExecuteHooksCanStep ==
    \A p \in Procs :
        eh[p].dpc \notin {"idle", "returned"} => ENABLED EngineStep(p)

\* The collaborator calls a running operation has made, and those that
\* returned without error.
Steps(p) == {trace[p][k].step : k \in 1..Len(trace[p])}
StepsOk(p) == {trace[p][k].step : k \in {j \in 1..Len(trace[p]) : trace[p][j].ok}}

\* The calls that write the unit file or reach the init system.
UnitSteps == {"write_file", "reload", "enable", "start"}

\* A pre_start hook of caller p's Deploy has reported failure.
PreStartFailed(p) ==
    \E l \in hookLog : l.owner = p /\ l.phase = HookPreStart /\ l.status = "failure"

SyncPreStartFailed(p) ==
    \E l \in hookLog :
        l.owner = p /\ l.phase = HookPreStart /\ ~l.async /\ l.status = "failure"

\* C4, as stated: once any pre_start hook of a Deploy has reported failure,
\* the Deploy makes no unit-file write, reload, enable or start call and
\* does not return success.
C4_AnyPreStartFailureStops ==
    [][\A p \in Procs :
          (op[p] = "Deploy" /\ PreStartFailed(p)) =>
              /\ result'[p] # "ok"
              /\ Len(trace'[p]) > Len(trace[p]) =>
                     trace'[p][Len(trace'[p])].step \notin UnitSteps]_vars

\* C4, amended: once a synchronous pre_start hook of a Deploy has reported
\* failure, the Deploy has made and makes no unit-file write, reload, enable
\* or start call, it never returns success, and when it returns it returns
\* the "pre-start hook failed" error.
C4_SyncPreStartFailureStops ==
    \A p \in Procs :
        (op[p] = "Deploy" /\ SyncPreStartFailed(p)) =>
            /\ pc[p] \in {"prewait", "ret"}
            /\ pc[p] = "ret" => result[p] = "pre-start hook failed"
            /\ result[p] \in {"none", "pre-start hook failed"}
            /\ Steps(p) \cap UnitSteps = {}

\* C4, its case: a Deploy whose synchronous pre_start hook failed has
\* returned the error, no unit file of its service having been written.
C4_Witness ==
    \E p \in Procs :
        /\ op[p] = "Deploy"
        /\ SyncPreStartFailed(p)
        /\ pc[p] = "ret"
        /\ result[p] = "pre-start hook failed"
        /\ req[p].service \notin unitFiles

\* The pre_start hooks of caller p's Deploy are being run, or have been.
PreStartHooksStarted(p) ==
    \/ eh[p].phase = HookPreStart /\ eh[p].dpc # "idle"
    \/ \E l \in hookLog : l.owner = p /\ l.phase = HookPreStart
    \/ \E t \in TasksOf(p) : t.kind = "hook" /\ t.phase = HookPreStart

DeployOrder ==
    <<"ensure_service_dir", "ensure_log_dir", "otel_init", "pre_hooks", "validate_url",
      "download_extract", "build_config", "write_file", "reload", "enable", "start",
      "post_hooks", "notify">>

DeployCalls == {DeployOrder[i] : i \in 1..Len(DeployOrder)}

PosOf == [s \in DeployCalls |-> CHOOSE i \in 1..Len(DeployOrder) : DeployOrder[i] = s]

Pos(step) == PosOf[step]

\* The calls a Deploy with request r leaves out.
Skipped(r) ==
    (IF r.notifications.otel THEN {} ELSE {"otel_init"})
    \cup (IF Len(r.hooks) > 0 THEN {} ELSE {"pre_hooks", "post_hooks"})

\* The calls whose failure Deploy only logs.
Tolerated == {"otel_init", "post_hooks"}

PreStartHookRunning(p) ==
    \E t \in TasksOf(p) : t.kind = "hook" /\ t.phase = HookPreStart

\* C6, as stated: every enabled pre_start hook the engine started for a
\* Deploy, synchronous or async, has finished all its attempts before that
\* Deploy writes the unit file.
C6_PreStartHooksDoneBeforeWrite ==
    \A p \in Procs :
        (op[p] = "Deploy" /\ "write_file" \in Steps(p)) => ~PreStartHookRunning(p)

\* C6, amended: every enabled synchronous pre_start hook of a Deploy has
\* finished all its attempts, without failure, before that Deploy writes the
\* unit file; a hook marked async is not waited for and can have attempts
\* left when the unit file is written.
C6_SyncPreStartHooksDoneBeforeWrite ==
    \A p \in Procs :
        (op[p] = "Deploy" /\ (pc[p] = "write" \/ "write_file" \in Steps(p))) =>
            /\ \A i \in 1..Len(req[p].hooks) :
                  LET h == req[p].hooks[i] IN
                  (h.enabled /\ h.type = HookPreStart /\ ~h.async) =>
                      \E l \in hookLog :
                          /\ l.owner = p /\ l.phase = HookPreStart /\ l.idx = i
                          /\ ~l.async /\ l.status # "failure"
            /\ ~(eh[p].phase = HookPreStart /\ eh[p].wpc = "exec")

\* C6, its case: the unit file has been written after the synchronous
\* pre_start hook of the Deploy had finished, while an async pre_start hook
\* of the same Deploy, one attempt made, has another one to make.
C6_Witness ==
    \E p \in Procs :
        /\ op[p] = "Deploy"
        /\ "write_file" \in StepsOk(p)
        /\ \E l \in hookLog : l.owner = p /\ l.phase = HookPreStart /\ ~l.async
        /\ \E t \in TasksOf(p) : t.kind = "hook" /\ t.phase = HookPreStart /\ t.made > 0

\* C7: once the unit has been started, a Deploy that returns returns success:
\* a failing post_start hook, a failed initialisation of the trace reporter
\* and the deployment callback, whatever its response, never make an error
\* of the result.
C7_SuccessOnceStarted ==
    \A p \in Procs :
        op[p] = "Deploy" =>
            /\ "start" \in StepsOk(p) =>
                  /\ pc[p] \in {"posthooks", "postwait", "notify", "ret"}
                  /\ pc[p] = "ret" => result[p] = "ok"
                  /\ result[p] \in {"none", "ok"}
            /\ (pc[p] = "ret" /\ result[p] \notin {"ok", "validation failed"}) =>
                  /\ Len(trace[p]) > 0
                  /\ trace[p][Len(trace[p])].step \notin Tolerated \cup {"notify"}
                  /\ \A k \in 1..Len(trace[p]) :
                        ~trace[p][k].ok => (k = Len(trace[p]) \/ trace[p][k].step \in Tolerated)

\* C7, its case: a Deploy has returned success although the reporter could
\* not be initialised and a post_start hook failed, its callback goroutine
\* started.
C7_Witness ==
    \E p \in Procs :
        /\ op[p] = "Deploy"
        /\ pc[p] = "ret"
        /\ result[p] = "ok"
        /\ "start" \in StepsOk(p)
        /\ {"otel_init", "post_hooks"} \subseteq Steps(p) \ StepsOk(p)
        /\ \E l \in hookLog : l.owner = p /\ l.phase = HookPostStart /\ l.status = "failure"
        /\ \E t \in TasksOf(p) : t.kind = "callback"

\* The operations that take a service name.
NamedOps == {"Deploy", "Start", "Stop", "Restart", "Remove", "GetStatus", "GetLogs"}

\* An empty name, or a name holding a character outside [A-Za-z0-9_-].
BadName(name) == name = <<>> \/ \E i \in 1..Len(name) : name[i] \notin NameChars

\* C8: Deploy, Start, Stop, Restart, Remove, GetStatus and GetLogs called
\* with an empty name or a name holding a character outside [A-Za-z0-9_-]
\* return a validation error and do nothing else: the caller neither holds
\* nor waits for the lock, has made no collaborator call and run no hook, and
\* nothing of that name exists in the workspace, the unit-file directory or
\* the init system.
C8_BadNameNoEffect ==
    /\ \A p \in Procs :
          (op[p] \in NamedOps /\ BadName(req[p].service)) =>
              /\ pc[p] = "ret"
              /\ result[p] = "validation failed"
              /\ trace[p] = <<>>
              /\ eh[p] = NoEngine
              /\ mu.w # p
              /\ p \notin mu.readers
              /\ TasksOf(p) = {}
              /\ \A l \in hookLog : l.owner # p
    /\ \A name \in serviceDirs \cup logDirs \cup unitFiles \cup enabled \cup active :
          ~BadName(name)

\* C8, its case: a Deploy called with a bad name has returned the validation
\* error while the Deploy of another caller holds the lock.
C8_Witness ==
    \E p, q \in Procs :
        /\ op[p] = "Deploy"
        /\ BadName(req[p].service)
        /\ pc[p] = "ret"
        /\ result[p] = "validation failed"
        /\ InCritical(q)
        /\ mu.held

\* The calls of the running operation that changed the filesystem or the
\* init system.
Effects(p) == {trace[p][k].step : k \in {j \in 1..Len(trace[p]) : trace[p][j].eff}}

\* C9, as stated: a Deploy that ends with a validation failure or a
\* pre_start hook failure has changed nothing in the workspace, the
\* unit-file directory and the init system.
C9_NoPartialState ==
    \A p \in Procs :
        (/\ op[p] = "Deploy"
         /\ pc[p] = "ret"
         /\ result[p] \in {"validation failed", "pre-start hook failed"}) =>
            Effects(p) = {}

\* C9, amended: a Deploy that ends with a validation failure has made no
\* call at all; a Deploy that ends with a pre_start hook failure has left
\* the unit-file directory and the init system alone, but it has created the
\* service directory and the log directory of its service where they did
\* not exist, and they stay.
C9_OnlyDirectoriesLeft ==
    \A p \in Procs :
        (op[p] = "Deploy" /\ pc[p] = "ret") =>
            /\ result[p] = "validation failed" => trace[p] = <<>>
            /\ result[p] = "pre-start hook failed" =>
                  /\ Steps(p) \subseteq
                         {"ensure_service_dir", "ensure_log_dir", "otel_init", "pre_hooks"}
                  /\ Effects(p) \subseteq {"ensure_service_dir", "ensure_log_dir"}
                  /\ req[p].service \in serviceDirs
                  /\ req[p].service \in logDirs

\* C9, its case: a Deploy has returned the pre_start hook failure, having
\* created the service directory and the log directory, no unit file of the
\* service existing.
C9_Witness ==
    \E p \in Procs :
        /\ op[p] = "Deploy"
        /\ pc[p] = "ret"
        /\ result[p] = "pre-start hook failed"
        /\ Effects(p) = {"ensure_service_dir", "ensure_log_dir"}
        /\ req[p].service \notin unitFiles

\* The calls from the unit-file write on, in the order of Deploy.
UnitOrder == <<"write_file", "reload", "enable", "start", "post_hooks">>

UnitCalls == {UnitOrder[i] : i \in 1..Len(UnitOrder)}

IsUnitStep(s) == s.step \in UnitCalls

\* The post_start hooks of caller p's Deploy are being run, or have been.
PostStartHooksStarted(p) ==
    \/ eh[p].phase = HookPostStart /\ eh[p].dpc # "idle"
    \/ \E l \in hookLog : l.owner = p /\ l.phase = HookPostStart
    \/ \E t \in TasksOf(p) : t.kind = "hook" /\ t.phase = HookPostStart

\* C10: within one Deploy the unit-file write, the reload, the enable, the
\* start and the post_start hooks occur in exactly that order, each after
\* the success of the one before; after the first that fails none of the
\* later ones occurs, and no post_start hook runs unless the start succeeded.
C10_UnitStepsInOrder ==
    \A p \in Procs :
        (op[p] = "Deploy" /\ pc[p] # "idle") =>
            LET unit == SelectSeq(trace[p], IsUnitStep) IN
            /\ Len(unit) <= Len(UnitOrder)
            /\ \A k \in 1..Len(unit) :
                  /\ unit[k].step = UnitOrder[k]
                  /\ k > 1 => unit[k - 1].ok
            /\ PostStartHooksStarted(p) => {"write_file", "reload", "enable", "start"} \subseteq StepsOk(p)
            /\ (Len(unit) > 0 /\ ~unit[Len(unit)].ok /\ unit[Len(unit)].step # "post_hooks") =>
                  /\ pc[p] = "ret"
                  /\ result[p] \notin {"none", "ok"}

\* C10, its case: a Deploy with a post_start hook has returned the error of
\* the enable call, after the write and the reload succeeded; the start was
\* not made and the hook did not run.
C10_Witness ==
    \E p \in Procs :
        /\ op[p] = "Deploy"
        /\ pc[p] = "ret"
        /\ result[p] = "failed to enable service"
        /\ \E i \in 1..Len(req[p].hooks) : req[p].hooks[i].type = HookPostStart
        /\ {"write_file", "reload"} \subseteq StepsOk(p)
        /\ "enable" \in Steps(p) \ StepsOk(p)
        /\ ~PostStartHooksStarted(p)

\* The errors Deploy returns for a failed reload, enable and start.
RegistrationErrors ==
    {"failed to reload systemd daemon", "failed to enable service", "failed to start service"}

\* C11: when the reload, the enable or the start fails after the unit file
\* was written, Deploy returns that error and compensates nothing: the failed
\* call is the last one made, the unit file, the service directory and the
\* log directory are still there, and a unit that was enabled before the
\* start failed is still enabled.
C11_NoCompensation ==
    \A p \in Procs :
        (op[p] = "Deploy" /\ "write_file" \in StepsOk(p)
            /\ (Steps(p) \ (StepsOk(p) \cup Tolerated)) # {}) =>
            LET last == trace[p][Len(trace[p])] IN
            /\ pc[p] = "ret"
            /\ ~last.ok /\ ~last.eff
            /\ last.step \in {"reload", "enable", "start"}
            /\ result[p] \in RegistrationErrors
            /\ last.step = "reload" <=> result[p] = "failed to reload systemd daemon"
            /\ last.step = "enable" <=> result[p] = "failed to enable service"
            /\ last.step = "start" <=> result[p] = "failed to start service"
            /\ req[p].service \in unitFiles \cap serviceDirs \cap logDirs
            /\ "enable" \in StepsOk(p) => req[p].service \in enabled

\* C11, its case: a Deploy has returned the error of the start call; the
\* unit file it wrote is on disk and the unit is enabled, but not started.
C11_Witness ==
    \E p \in Procs :
        /\ op[p] = "Deploy"
        /\ pc[p] = "ret"
        /\ result[p] = "failed to start service"
        /\ req[p].service \in unitFiles \cap enabled
        /\ req[p].service \notin active

\* C17: when the fetch and extraction succeeded but returned no top-level
\* folder, Deploy has failed with the folder-name error and has neither
\* built a configuration nor written the unit file nor called reload,
\* enable or start; and a Deploy that failed with that error made none of
\* these calls.
C17_NoFolderNoUnit ==
    \A p \in Procs :
        /\ (op[p] = "Deploy" /\ "download_extract" \in StepsOk(p) /\ loc[p].folder = "") =>
              /\ pc[p] = "ret"
              /\ result[p] = "failed to extract folder name"
              /\ trace[p][Len(trace[p])].step = "download_extract"
        /\ (op[p] = "Deploy" /\ result[p] = "failed to extract folder name") =>
              /\ Steps(p) \cap (UnitSteps \cup {"build_config"}) = {}
              /\ "download_extract" \in StepsOk(p)
              /\ loc[p].folder = ""

\* C17, its case: a Deploy has returned the folder-name error after an
\* extraction into the service directory; no unit file of the service exists.
C17_Witness ==
    \E p \in Procs :
        /\ op[p] = "Deploy"
        /\ pc[p] = "ret"
        /\ result[p] = "failed to extract folder name"
        /\ "download_extract" \in StepsOk(p)
        /\ req[p].service \in serviceDirs
        /\ req[p].service \notin unitFiles

\* The statuses of a finished ExecuteHook the claim C18 allows.
FinalStatuses == {"success", "failure"}

\* C18, as stated: ExecuteHook makes at most max(retry, 1) attempts and the
\* one event it returns has the status "success" or "failure" (success when
\* an attempt succeeded, failure otherwise), for the worker's hooks and for
\* the hooks run in goroutines of their own.
C18_OneEventSuccessOrFailure ==
    /\ \A p \in Procs :
          LET e == eh[p] IN
          /\ e.wpc \in {"exec", "send"} =>
                e.wattempt <= MaxAttempts(e.hooks[e.whook])
          /\ e.wpc = "exec" => e.wattempt < MaxAttempts(e.hooks[e.whook])
          /\ e.wpc = "send" => e.wstatus \in FinalStatuses
          /\ \A k \in 1..Len(e.events) : e.events[k].status \in FinalStatuses
    /\ \A t \in tasks : t.kind = "hook" => t.made < MaxAttempts(t.hook)
    /\ \A line \in hookLog : line.status \in FinalStatuses

\* The hooks of ExecuteHooks' list that are enabled, of the phase asked for,
\* and have none of command, script and callback URL populated.
EmptyHooks(e) ==
    {k \in 1..Len(e.hooks) :
        e.hooks[k].enabled /\ e.hooks[k].type = e.phase /\ e.hooks[k].what = "none"}

\* C19, as stated: an enabled hook of the phase with none of command, script
\* and callback URL populated is skipped: no event of it is recorded in the
\* log and none is returned by ExecuteHooks.
C19_EmptyHookSkipped ==
    \A p \in Procs :
        LET e == eh[p] IN
        \A k \in EmptyHooks(e) :
            /\ \A j \in 1..Len(e.events) : e.events[j].hook # k
            /\ \A line \in hookLog : ~(line.owner = p /\ line.idx = k)

\* C20: hooks marked async never influence a phase's result: the event list
\* of ExecuteHooks holds no event of an async hook, the dispatching loop can
\* take its next step whatever goroutines of async hooks are still running,
\* and a Deploy that returned the pre-start hook failure had a synchronous
\* pre_start hook fail.
C20_AsyncHooksApart ==
    \A p \in Procs :
        LET e == eh[p] IN
        /\ \A k \in 1..Len(e.events) : ~e.hooks[e.events[k].hook].async
        /\ (e.dpc = "loop" /\ NoneReturning /\ TasksOf(p) # {}) => ENABLED Dispatch(p)
        /\ (op[p] = "Deploy" /\ result[p] = "pre-start hook failed") => SyncPreStartFailed(p)

\* C20, its case: a Deploy has returned success while the goroutine of an
\* async pre_start hook of it has made a failed attempt and is not done.
C20_Witness ==
    \E p \in Procs :
        /\ op[p] = "Deploy"
        /\ pc[p] = "ret"
        /\ result[p] = "ok"
        /\ \E t \in tasks :
              t.kind = "hook" /\ t.owner = p /\ t.phase = "pre_start" /\ t.made > 0

\* The configuration caller p's Deploy has built, the directory it had the
\* artifact extracted into, and the text of the unit file it writes.
BuiltConfig(p) == loc[p].config[1]
ExtractDir(r) == GetServiceDir(r.service)
WrittenText(p) ==
    UnitText(NewSystemdConfig(req[p].service, BuiltConfig(p).WorkingDirectory,
                              req[p].startCommand, loc[p].config))

\* The errors of a Deploy that failed at the unit-file write or later.
WriteOrLaterErrors == {"failed to write systemd config"} \cup RegistrationErrors

\* The errors of Remove's calls to the init system (and of the validation).
RemoveInitErrors ==
    {"validation failed", "failed to stop service", "failed to disable service",
     "failed to reload systemd daemon"}

\* C12, as stated: after a Deploy of a service failed at the unit-file write
\* or later, a Remove of that service whose init-system calls succeed
\* returns success and leaves no unit file, no service directory and no log
\* directory of the service.
C12_RemoveCleansUp ==
    \A p \in Procs :
        (/\ op[p] = "Remove"
         /\ pc[p] = "ret"
         /\ caller.err \in WriteOrLaterErrors
         /\ caller.params.service = req[p].service
         /\ result[p] \notin RemoveInitErrors) =>
            /\ result[p] = "ok"
            /\ req[p].service \notin unitFiles \cup serviceDirs \cup logDirs

\* C13, as stated: whatever run of a request it is, the first or a later
\* one, the unit file Deploy writes has the text that a first run of the
\* request as it was first submitted writes for the same extracted folder.
C13_RerunSameUnit ==
    \A p \in Procs :
        (op[p] = "Deploy" /\ "build_config" \in Steps(p)) =>
            LET first == [req[p] EXCEPT !.config = req[p].submitted]
                config == BuildConfig(first, loc[p].folder)
            IN WrittenText(p) =
                   UnitText(NewSystemdConfig(first.service, config.WorkingDirectory,
                                             first.startCommand, Ref(config)))

\* C14, as stated: when Deploy returns from the first run of a request, the
\* request's Config (the one field Deploy reaches through a pointer) has the
\* value it had when the request was submitted.
C14_RequestUnchanged ==
    \A p \in Procs :
        (op[p] = "Deploy" /\ pc[p] = "ret" /\ req[p].runs = 1) =>
            req[p].config = req[p].submitted

\* C15: the configuration of a Deploy that has reached the unit-file write
\* has the request's service name as ServiceName, the service's directory
\* (where the artifact was extracted) joined with the first extracted folder
\* as WorkingDirectory and that joined with the start command as ExecStart,
\* also when the caller's Config came with other values; and the unit file
\* has these two lines.
C15_DerivedFields ==
    \A p \in Procs :
        (op[p] = "Deploy" /\ "build_config" \in Steps(p)) =>
            LET c == BuiltConfig(p)
                text == WrittenText(p)
            IN /\ loc[p].folder # ""
               /\ c.ServiceName = req[p].service
               /\ c.WorkingDirectory = Join(ExtractDir(req[p]), <<loc[p].folder>>)
               /\ c.ExecStart = Join(c.WorkingDirectory, req[p].startCommand)
               /\ \E i \in 1..Len(text) : text[i] = Line("WorkingDirectory", c.WorkingDirectory)
               /\ \E i \in 1..Len(text) : text[i] = Line("ExecStart", c.ExecStart)

\* C15, its case: the unit file is written for a request whose Config came
\* with a name, a working directory and a start path of the caller.
C15_Witness ==
    \E p \in Procs :
        /\ op[p] = "Deploy"
        /\ "write_file" \in StepsOk(p)
        /\ req[p].submitted = Ref(CallerConfig)
        /\ CallerConfig.ServiceName # req[p].service
        /\ BuiltConfig(p).WorkingDirectory # CallerConfig.WorkingDirectory

\* C16, as stated: a Deploy of a request without Config and without hooks
\* has the artifact extracted under the request's path, builds a
\* configuration with RestartPolicy "always" and the request's path joined
\* with the first extracted folder as WorkingDirectory, and writes a unit
\* file whose ExecStart is that WorkingDirectory joined with the start
\* command.
C16_DefaultConfigUnderPath ==
    \A p \in Procs :
        (/\ op[p] = "Deploy"
         /\ "build_config" \in Steps(p)
         /\ req[p].submitted = NilConfig
         /\ req[p].hooks = <<>>) =>
            LET c == BuiltConfig(p)
                text == WrittenText(p)
            IN /\ ExtractDir(req[p]) = req[p].path
               /\ c.RestartPolicy = "always"
               /\ c.WorkingDirectory = Join(req[p].path, <<loc[p].folder>>)
               /\ \E i \in 1..Len(text) :
                     text[i] = Line("ExecStart", Join(c.WorkingDirectory, req[p].startCommand))

\* C24: ListServices holds the deployment lock in shared mode: the readers of
\* the lock are the ListServices calls between RLock and RUnlock, of which
\* there can be several, and none of them is inside while a Deploy holds the
\* lock or is at a step of its pipeline.
C24_SharedMode ==
    /\ mu.readers = {p \in Procs : op[p] = "ListServices" /\ pc[p] = "ls_list"}
    /\ ~(mu.held /\ mu.readers # {})
    /\ \A p, q \in Procs : InCritical(p) => pc[q] # "ls_list"

\* C24, its case: two ListServices calls are inside their critical section
\* at the same time.
C24_Witness ==
    \E p, q \in Procs :
        /\ p # q
        /\ {p, q} \subseteq mu.readers
        /\ pc[p] = "ls_list"
        /\ pc[q] = "ls_list"

\* C25: Start, Stop, Restart and Remove take no part in the deployment lock
\* and run no hooks: a caller inside one of them is neither a reader nor the
\* writer of the lock and has no ExecuteHooks call and no goroutine, and
\* while a Deploy holds the lock each of them can be called and, once
\* called, can take its next step.
C25_OutsideTheLock ==
    \A p \in Procs :
        /\ op[p] \in {"Start", "Stop", "Restart", "Remove"} =>
              /\ p \notin mu.readers
              /\ mu.w # p
              /\ eh[p] = NoEngine
              /\ TasksOf(p) = {}
        /\ (mu.held /\ NoneReturning
               /\ pc[p] \in {"stop_disable", "rm_disable", "rm_file", "rm_reload", "rm_cleanup"}) =>
              ENABLED SimpleStep(p)
        /\ (mu.held /\ Callable(p)) =>
              /\ ENABLED Start(p, SvcA)
              /\ ENABLED Restart(p, SvcA)
              /\ ENABLED Stop(p, SvcA)
              /\ ENABLED Remove(p, SvcA)

\* C25, its case: a Remove has returned success, having deleted the unit
\* file that a Deploy of the same service wrote, while that Deploy is still
\* at a step of its pipeline and holds the lock.
C25_Witness ==
    \E p, q \in Procs :
        /\ InCritical(q)
        /\ mu.held
        /\ "write_file" \in StepsOk(q)
        /\ op[p] = "Remove"
        /\ pc[p] = "ret"
        /\ result[p] = "ok"
        /\ req[p].service = req[q].service
        /\ req[p].service \notin unitFiles

\* The steps of Remove in the order of the code, each with the label at
\* which it is taken and the error returned when it fails.
RemoveOrder ==
    <<[at |-> "idle", err |-> "failed to stop service"],
      [at |-> "rm_disable", err |-> "failed to disable service"],
      [at |-> "rm_file", err |-> "failed to remove systemd service file"],
      [at |-> "rm_reload", err |-> "failed to reload systemd daemon"]>>

\* C26: every step of a Remove is the next of stop, disable, unit-file
\* deletion and reload: it succeeds, has its one effect and leads to the
\* following step, or it fails, changes nothing and ends the Remove with its
\* error.  The cleanup is reached from a successful reload only; it leaves
\* the unit files and the init system alone, removes directories or not, and
\* ends the Remove with success, which no other step does.
C26_RemoveOrder ==
    [][\A p \in Procs :
          (op'[p] = "Remove" /\ pc'[p] # pc[p]) =>
              LET svc == req'[p].service IN
              /\ \A k \in 1..Len(RemoveOrder) :
                    pc[p] = RemoveOrder[k].at =>
                        \/ /\ pc'[p] = "ret"
                           /\ result'[p] \in {RemoveOrder[k].err, "validation failed"}
                           /\ result'[p] = "validation failed" => k = 1
                           /\ UNCHANGED <<fsVars, initVars>>
                        \/ /\ pc'[p] = (IF k < Len(RemoveOrder)
                                         THEN RemoveOrder[k + 1].at ELSE "rm_cleanup")
                           /\ active' = (IF k = 1 THEN active \ {svc} ELSE active)
                           /\ enabled' = (IF k = 2 THEN enabled \ {svc} ELSE enabled)
                           /\ k = 3 => svc \in unitFiles
                           /\ unitFiles' = (IF k = 3 THEN unitFiles \ {svc} ELSE unitFiles)
                           /\ UNCHANGED <<serviceDirs, logDirs>>
              /\ pc[p] = "rm_cleanup" =>
                    /\ pc'[p] = "ret"
                    /\ result'[p] = "ok"
                    /\ UNCHANGED <<unitFiles, initVars>>
                    /\ serviceDirs' \subseteq serviceDirs
                    /\ logDirs' \subseteq logDirs
              /\ (pc'[p] = "ret" /\ result'[p] = "ok") => pc[p] = "rm_cleanup"
              /\ pc[p] \in {"idle", "rm_disable", "rm_file", "rm_reload", "rm_cleanup"}]_vars

\* C26, its case: a Remove has returned success after its four steps, the
\* unit file being deleted, although the cleanup left the service directory.
C26_Witness ==
    \E p \in Procs :
        /\ op[p] = "Remove"
        /\ pc[p] = "ret"
        /\ result[p] = "ok"
        /\ req[p].service \notin unitFiles \cup enabled \cup active
        /\ req[p].service \in serviceDirs

\* The hooks of ExecuteHooks' list that are enabled and of the phase asked
\* for, and those of them that go to the worker.
DueHooks(e) == {k \in 1..Len(e.hooks) : e.hooks[k].enabled /\ e.hooks[k].type = e.phase}
DueSyncHooks(e) == {k \in DueHooks(e) : ~e.hooks[k].async}

\* The hooks of caller p's ExecuteHooks whose attempt sequence has ended.
RanHooks(p) == {line.idx : line \in {l \in hookLog : l.owner = p}}

C22_DueHooksExecutedOnce ==
    \A p \in Procs :
        LET e == eh[p] IN
        /\ RanHooks(p) \subseteq DueHooks(e)
        /\ \A j \in 1..Len(e.events) : e.events[j].hook \in DueSyncHooks(e)
        /\ \A j, k \in 1..Len(e.events) : e.events[j].hook = e.events[k].hook => j = k
        /\ (e.dpc # "idle" /\ TasksOf(p) = {} /\ ~ENABLED EngineStep(p)) =>
              /\ e.dpc = "returned"
              /\ RanHooks(p) = DueHooks(e)
              /\ Len(e.events) = Cardinality(DueSyncHooks(e))

\* C28: ValidateServiceName succeeds exactly on the non-empty strings made
\* only of characters of [A-Za-z0-9_-]: it fails on the empty string and on
\* every string holding any other character, white space, '.', '/' and a
\* trailing newline included.
C28_ExactlyTheNameClass ==
    op[1] = "ValidateServiceName" =>
        \A k \in 1..Len(result[1]) :
            /\ result[1][k] = "nil" <=>
                  (req[1] # <<>> /\ \A i \in 1..Len(req[1]) : req[1][i] \in NameChars)
            /\ (\E i \in 1..Len(req[1]) : req[1][i] \in {" ", "\n", ".", "/"}) =>
                  result[1][k] \in {"ErrEmptyServiceName", "ErrInvalidServiceName"}

\* C28, its case: a name of the class followed by a newline was refused.
C28_Witness ==
    /\ op[1] = "ValidateServiceName"
    /\ req[1] = <<"a", "Z", "\n">>
    /\ result[1] = <<"ErrInvalidServiceName">>

\* C30, as stated: ValidateURL accepts a URL if and only if its scheme is
\* http or https and it ends in .zip, .tar or .tar.gz; a URL holding such an
\* extension elsewhere only is rejected.
C30_AcceptsIffEndsInArchive ==
    op[1] = "ValidateURL" =>
        \A k \in 1..Len(result[1]) :
            result[1][k] <=>
                /\ req[1] # <<>>
                /\ Head(req[1]) \in {"http://", "https://"}
                /\ req[1][Len(req[1])] \in {".zip", ".tar", ".tar.gz"}

\* C27: GetLogs asks the log subsystem for the last n lines, n being the
\* requested count when that is a positive integer and 50 whenever it is
\* unspecified, zero, negative or no number; no request is made without a
\* count of lines.
C27_LastLinesDefault50 ==
    op[1] = "GetLogs" =>
        \A k \in 1..Len(result[1]) :
            LET args == result[1][k]
                asked == Atoi(req[1].lines)
                n == IF asked.ok /\ asked.value > 0 THEN asked.value ELSE 50
                at == {i \in 1..Len(args) : args[i] = <<"-n">>}
            IN /\ args = <<>> <=> req[1].service \notin ValidNames
               /\ args # <<>> =>
                  /\ Cardinality(at) = 1
                  /\ \A i \in at : i < Len(args) /\ Atoi(args[i + 1]) = [ok |-> TRUE, value |-> n]
                  /\ (req[1].lines \in {<<>>, <<"0">>} \/ (asked.ok /\ asked.value < 0)) =>
                        \A i \in at : args[i + 1] = <<"5", "0">>
                  /\ args[2] = req[1].service

\* C27, its case: the handler was asked for -5 lines of a valid service and
\* has asked the log subsystem for the last 50.
C27_Witness ==
    /\ op[1] = "GetLogs"
    /\ req[1] = [service |-> SvcA, lines |-> <<"-", "5">>]
    /\ result[1] = <<<<<<"-u">>, SvcA, <<"-n">>, <<"5", "0">>, <<"--no-pager">>, <<"--output=json">>>>>>

C31_EngineGetsMergedHooks ==
    \A p \in Procs :
        op[p] = "Deploy" =>
            LET embedded == IF req[p].config # NilConfig THEN req[p].config[1].Hooks ELSE <<>>
                merged == IF loc[p].config # NilConfig
                          THEN loc[p].config[1].Hooks
                          ELSE embedded \o req[p].hooks
                due(type) == \E k \in 1..Len(merged) : merged[k].enabled /\ merged[k].type = type
            IN /\ pc[p] \in {"prewait", "postwait"} => eh[p].hooks = merged
               /\ (pc[p] = "url" /\ due(HookPreStart)) => "pre_hooks" \in Steps(p)
               /\ (pc[p] = "notify" /\ due(HookPostStart)) => "post_hooks" \in Steps(p)

\* C39, as stated: Stop followed by Start is a round trip on a deployed
\* service.  No step of a Stop changes the enablement state of any service
\* (Stop changes only the active state), and a Start that returns success
\* leaves its service running with the enablement state as it was, so an
\* enabled, running service is enabled and running again after the two.
C39_StopStartRoundTrip ==
    [][\A p \in Procs :
          /\ (op[p] = "Stop" /\ pc[p] = "stop_disable" /\ pc'[p] # pc[p]) =>
                 enabled' = enabled
          /\ (op'[p] = "Stop" /\ pc[p] = "idle" /\ pc'[p] # pc[p]) =>
                 enabled' = enabled
          /\ (op'[p] = "Start" /\ pc[p] = "idle" /\ pc'[p] = "ret" /\ result'[p] = "ok") =>
                 /\ req'[p].service \in active'
                 /\ enabled' = enabled]_vars

\* C36, as stated: an interleaving of one Deploy(S) and one Remove(S) whose
\* calls all succeed ends in the state of one of the two sequential orders.
\* When Deploy(S) has returned success and Remove(S) has only its workspace
\* cleanup left, which changes no unit state and always returns success, the
\* unit state of S is final: either the unit file exists and the unit is
\* enabled and started, or the file is absent and the unit disabled and stopped.
C36_DeployRemoveSerializable ==
    \A p, q \in Procs :
        ( /\ op[p] = "Deploy" /\ pc[p] = "ret" /\ result[p] = "ok"
          /\ op[q] = "Remove" /\ pc[q] = "rm_cleanup"
          /\ req[q].service = req[p].service ) =>
            LET S == req[p].service
            IN \/ S \in unitFiles /\ S \in enabled /\ S \in active
               \/ S \notin unitFiles /\ S \notin enabled /\ S \notin active

\* C35, as stated: the events of a Deploy go only to a reporter built from
\* that request.  At the points where Deploy reports when s.otelReporter is
\* not nil (the pre_start events, the post_start events and the "deployed"
\* event), a reporter is set only if this Deploy's own request enabled the
\* trace config and its reporter was initialised.
C35_ReportsOnlyToOwnReporter ==
    \A p \in Procs :
        LET reports == otelReporter # NoReporter
        IN (op[p] = "Deploy" /\ pc[p] \in {"prewait", "postwait", "notify"} /\ reports) =>
               /\ req[p].notifications.otel
               /\ "otel_init" \in StepsOk(p)

\* C34: a Deploy that has returned has returned success if and only if every
\* gating step succeeded: the name was accepted, the service and the log
\* directory were made, no synchronous pre_start hook of the request failed,
\* the URL was accepted, the artifact was fetched and extracted with a
\* top-level folder, and the unit file was written, the daemon reloaded and
\* the unit enabled and started.  With no other operation interleaved, a
\* successful Deploy leaves the unit file of its service in place, having
\* called reload, enable and start exactly once each.
C34_SuccessIffGatesPassed ==
    \A p \in Procs :
        (op[p] = "Deploy" /\ pc[p] = "ret") =>
            LET gates == {"ensure_service_dir", "ensure_log_dir", "validate_url",
                          "download_extract", "write_file", "reload", "enable", "start"}
                times(step) == Cardinality({k \in 1..Len(trace[p]) : trace[p][k].step = step})
                passed == /\ ValidateServiceName(req[p].service) = "nil"
                          /\ gates \subseteq StepsOk(p)
                          /\ ~SyncPreStartFailed(p)
            IN /\ result[p] = "ok" <=> passed
               /\ result[p] = "ok" =>
                     /\ req[p].service \in unitFiles
                     /\ \A step \in {"reload", "enable", "start"} : times(step) = 1

\* C34, its case: a Deploy whose synchronous pre_start hook succeeded has
\* returned success, and an earlier Deploy of the same service had returned.
C34_Witness ==
    \E p \in Procs :
        /\ op[p] = "Deploy"
        /\ pc[p] = "ret"
        /\ result[p] = "ok"
        /\ calls = MaxCalls
        /\ \E l \in hookLog :
              l.owner = p /\ l.phase = HookPreStart /\ ~l.async /\ l.status = "success"
        /\ {"reload", "enable", "start"} \subseteq StepsOk(p)

\* C40: operations on one service leave every other service untouched.  No
\* step of a Deploy(S) or of a Remove(S) changes, for a service T other than
\* S, whether T has a unit file, a service directory or a log directory, or
\* whether the unit of T is enabled or active.
C40_OtherServicesUntouched ==
    [][\A p \in Procs :
          (op'[p] \in {"Deploy", "Remove"} /\ pc'[p] # pc[p]) =>
              \A T \in ServiceNames \ {req'[p].service} :
                  /\ T \in unitFiles' <=> T \in unitFiles
                  /\ T \in serviceDirs' <=> T \in serviceDirs
                  /\ T \in logDirs' <=> T \in logDirs
                  /\ T \in enabled' <=> T \in enabled
                  /\ T \in active' <=> T \in active]_vars

\* C40, its case: a Deploy of one service has returned success while the
\* other service, deployed before, still has its unit file and directories
\* and its unit is enabled and active.
C40_Witness ==
    \E p \in Procs :
        /\ op[p] = "Deploy"
        /\ pc[p] = "ret"
        /\ result[p] = "ok"
        /\ req[p].service = SvcA
        /\ {SvcA, SvcB} \subseteq unitFiles \cap serviceDirs \cap logDirs \cap enabled \cap active

\* C38, as stated: a hook with enabled = false has no effect on a deployment.
\* The engine makes no attempt of a hook of the request that is not enabled,
\* and once the unit file is written it holds no ExecStartPre or ExecStartPost
\* line for a phase in which no enabled hook of the configuration has a
\* command.
C38_DisabledHookNoEffect ==
    \A p \in Procs :
        op[p] = "Deploy" =>
            /\ \A l \in hookLog : l.owner = p => req[p].hooks[l.idx].enabled
            /\ "write_file" \in StepsOk(p) =>
                  LET hs == BuiltConfig(p).Hooks
                      text == WrittenText(p)
                      due(type) == \E k \in 1..Len(hs) :
                                      hs[k].enabled /\ hs[k].type = type /\ CommandOf(hs[k]) # <<>>
                      has(key) == \E k \in 1..Len(text) : text[k][1] = key
                  IN /\ has("ExecStartPre") => due(HookPreStart)
                     /\ has("ExecStartPost") => due(HookPostStart)

\* C37, as stated: every service whose Deploy returned success, and that has
\* not been removed since, is returned by ListServices whenever the init
\* system lists its unit, whatever accepted name it has.
C37_DeployedIsListed ==
    \A p \in Procs :
        (op[p] = "Deploy" /\ pc[p] = "ret" /\ result[p] = "ok") =>
            LET S == req[p].service
                units == <<[Name |-> S \o <<".service">>,
                            ActiveState |-> IF S \in active THEN "active" ELSE "inactive",
                            UnitFileState |-> IF S \in enabled THEN "enabled" ELSE "disabled"]>>
                listed == ServiceInfos(units, unitFiles)
            IN \E i \in 1..Len(listed) : listed[i].Name = S

C32_TimeoutScopedToHook ==
    op[1] = "ExecuteHooks" =>
        \A c \in 1..Len(result[1]) : \A j \in 1..2 :
            LET e == result[1][c][j]
                h == req[1][j].hook
                script == req[1][j].script
                n == Len(e.attempts)
                start == IF j = 1 THEN 0 ELSE result[1][c][1].end
                maxRetries == IF h.retry <= 0 THEN 1 ELSE h.retry
            IN /\ n \in 1..maxRetries
               /\ n < maxRetries => e.attempts[n].err = "nil"
               /\ \A k \in 1..(n - 1) : e.attempts[k].err # "nil"
               /\ e.status = (IF e.attempts[n].err = "nil" THEN "success" ELSE "failure")
               /\ e.end = e.attempts[n].end
               /\ \A k \in 1..n :
                     LET a == e.attempts[k] IN
                     IF a.err = "cancelled"
                     THEN /\ h.timeout > 0
                          /\ a.at + script[k].d > start + h.timeout
                          /\ a.end = (IF a.at > start + h.timeout THEN a.at ELSE start + h.timeout)
                     ELSE /\ a.end = a.at + script[k].d
                          /\ a.err = (IF script[k].ok THEN "nil" ELSE "exit status 1")
                          /\ h.timeout > 0 => a.end < start + h.timeout
               /\ h.timeout = 0 => \A k \in 1..n : e.attempts[k].err # "cancelled"

\* C32, its case: the first attempt of a hook with a timeout of 15 seconds
\* was killed at the deadline and its two other attempts were made and
\* cancelled; the next hook, without timeout, ran its command for the full
\* 30 seconds twice and succeeded.
C32_Witness ==
    /\ op[1] = "ExecuteHooks"
    /\ req[1][1].hook = [retry |-> 3, timeout |-> 15]
    /\ req[1][2].hook = [retry |-> 2, timeout |-> 0]
    /\ Len(result[1]) > 0
    /\ LET first == result[1][1][1]
           second == result[1][1][2]
       IN /\ Len(first.attempts) = 3
          /\ first.attempts[1] = [at |-> 0, end |-> 15, err |-> "cancelled"]
          /\ \A k \in 2..3 : first.attempts[k].err = "cancelled"
          /\ first.status = "failure"
          /\ Len(second.attempts) = 2
          /\ \A k \in 1..2 : second.attempts[k].end - second.attempts[k].at = 30
          /\ second.status = "success"

====
